---------------------------- MODULE Spec2Model ----------------------------
(***************************************************************************)
(* A model of the sabi replication runtime (Aceeri/sabi):                  *)
(*   - InterestQueue, the deduplicated queue of interests                  *)
(*     (sabi/src/protocol/interest.rs),                                    *)
(*   - NetworkAck, the 32-bit sliding acknowledgement window               *)
(*     (sabi/src/protocol/ack.rs),                                         *)
(*   - the server side interest pipeline: change detection,                *)
(*     queue_interests, the unacked ledger and its resend                  *)
(*     (sabi/src/protocol/interest.rs),                                    *)
(*   - the fixed timestep driver NetworkSimulationStage::run with its      *)
(*     meta / rewind / history sub-stages (sabi/src/stage.rs,              *)
(*     sabi/src/protocol/input.rs, resim.rs, update.rs),                   *)
(*   - the server's receipt of client input, server_recv_input             *)
(*     (sabi/src/protocol/input.rs, ack.rs),                               *)
(*   - SnapshotBuffer under pushes in any order                            *)
(*     (sabi/src/protocol/resim.rs).                                       *)
(* Each part has its own specification over its own variables; the         *)
(* variables of the other parts stay at their initial value.               *)
(***************************************************************************)
EXTENDS Integers, Sequences, FiniteSets, TLC

VARIABLES
    iq,         \* InterestQueue<I>: [contains: set, queue: sequence]
    qcall,      \* the last InterestQueue call: [op, arg, retb, retv]
    arrival,    \* ghost: queued elements in order of their first push_back
    fifo,       \* ghost: no push_front since the queue was last empty
    na,         \* NetworkAck: [base: tick, ack: the set bits of the u32, a set of bit indices]
    acall,      \* the last NetworkAck call: [op, arg, other, pre, ret]
    apanic,     \* the last NetworkAck call panicked (arithmetic overflow check)
    overflow_checks, \* build profile: overflow checks on (debug) or off (release)
    aops,       \* number of NetworkAck calls made
    base0,      \* ghost: the base the NetworkAck was created with
    minbase,    \* ghost: the lowest base the NetworkAck has had
    acked,      \* ghost: ticks acknowledged (ack or merge) while inside the window
    returned,   \* ghost: ticks returned by the set_base calls made so far
    twice,      \* ghost: ticks returned by set_base more than once
    monotone,   \* ghost: no set_base call has lowered the base
    stick,      \* server: Res<NetworkTick>
    queues,     \* server: ClientInterestQueues, client -> InterestQueue (clients with an entry)
    to_send,    \* server: InterestsToSend, client -> Vec<Interest>
    unacked,    \* server: ClientUnackedInterests, client -> (tick -> Vec<Interest>)
    baseload,   \* server: Baseload, client -> bool
    cfg,        \* server: ReplicateMaxSize, ReplicateSizeEstimates, ReplicateDemands.require
    scall,      \* the last server interest operation: [op, client, tick]
    sops,       \* number of server interest operations made
    queued_at,  \* the tick of the last queue_interests pass (the meta stage runs once a tick)
    owed,       \* ghost: client -> interests pushed by change detection and not acknowledged since
    fresh,      \* ghost: client -> interests pushed by change detection since they were last sent
    net_tick,       \* client: the NetworkTick resource, NoTick when absent
    info,           \* client: the NetworkSimulationInfo resource [step, accumulator, accel, accel_step]
    rewind_marker,  \* client: the Rewind resource, NoTick when absent
    comp,           \* client: the replicated component C of the entity, NoComp when it has none
    player_input,   \* client: the input resource Res<I>
    input_buffer,   \* client: QueuedInputs<I>, tick -> input
    snapshots,      \* client: SnapshotBuffer<C>, tick -> component value (NoComp: entity not in the snapshot)
    server_entities,\* client: ServerEntities, the server entities that have a local entity
    server_updates, \* client: UpdateMessages, tick -> component value (NoVal: message without C)
    conn,           \* client: RenetClient: "none" (no resource), "connecting", "connected", "disconnected"
    inbox,          \* client: messages of the EntityUpdate channel not yet received
    dcall,          \* the last application update that had Time: [op, delta, pre_acc, pre_tick, meta_info,
                    \* rewind_tick, current_tick]
    trace,          \* ghost: the sub-stage runs of that update, <<stage, tick>> each
    dops,           \* number of application updates made
    wall,           \* ghost: the sum of the frame deltas so far
    incs,           \* ghost: the number of tick increments made by the step loop so far
    steady,         \* ghost: the tick was present and info.accel_step zero in every update so far
    acks,           \* server: ClientAcks, client -> NetworkAck
    queued_inputs,  \* server: ClientQueuedInputs<I>, client -> (tick -> input)
    recv_history,   \* server: ClientReceivedHistory, client -> [previous, times]
    rnow,           \* server: Time::time_since_startup of the frame
    rcall,          \* the last server_recv_input run: [client, message] of the message it took
    rpanic,         \* a server system panicked
    rops,           \* number of server_recv_input runs made
    entity_input,   \* server: the input component I of each client's lobby entity, client -> input
    promised,       \* ghost: client -> (tick -> input) received while the tick was ahead of the
                    \* server's, and not received again since
    server_checks,  \* build profile of the server: overflow checks on (debug) or off (release)
    sbuf,           \* SnapshotBuffer<C>: tick -> snapshot
    bcall,          \* the last SnapshotBuffer call: [op, tick]
    bodd,           \* number of pushes made that were not for the tick after the newest
    iring,          \* QueuedInputs<I> on its own: tick -> input
    icall,          \* the last QueuedInputs call: [op, tick, input, pre]
    updates,        \* server: ClientEntityUpdates, client -> [count, len] of its EntityUpdate
    can_send,       \* server: RenetServer::can_send_message on the EntityUpdate channel, per client
    sent_to,        \* the clients the last server_send_interest run sent a message to
    ucall,          \* the last system run on the updates: [op, pre]
    uops,           \* number of system runs made on the updates
    types,          \* TYPES.replicate: the process-wide table, type name -> id
    types_file,     \* types.toml as last written
    tpc,            \* each thread's place in replicate_id: [pc, name, id]
    treturned       \* ghost: type name -> the ids replicate_id has returned for it

qvars == <<iq, qcall, arrival, fifo>>

avars == <<na, acall, apanic, overflow_checks, aops, base0, minbase,
          acked, returned, twice, monotone>>

svars == <<stick, queues, to_send, unacked, baseload, cfg, scall, sops, queued_at, owed, fresh>>

dvars == <<net_tick, info, rewind_marker, comp, player_input, input_buffer, snapshots,
           server_updates, conn, inbox, dcall, trace, dops, wall, incs, steady,
           server_entities>>

rvars == <<acks, queued_inputs, recv_history, rnow, rcall, rpanic, rops, server_checks,
          entity_input, promised>>

uvars == <<updates, can_send, sent_to, ucall, uops>>

tvars == <<types, types_file, tpc, treturned>>

bvars == <<sbuf, bcall, bodd, iring, icall, uvars, tvars>>

vars == <<qvars, avars, svars, dvars, rvars, bvars>>

\* what the calls of each part leave alone
notq == <<avars, svars, dvars, rvars, bvars>>

nota == <<qvars, svars, dvars, rvars, bvars>>

nots == <<qvars, avars, dvars, rvars, bvars>>

notd == <<qvars, avars, svars, rvars, bvars>>

notsr == <<qvars, avars, dvars, bvars>>

notb == <<qvars, avars, svars, dvars, rvars>>

(***************************************************************************)
(* Helpers on sequences.                                                   *)
(***************************************************************************)
Range(s) == {s[i] : i \in 1..Len(s)}

Count(s, x) == Cardinality({i \in 1..Len(s) : s[i] = x})

NoDup(s) == \A i, j \in 1..Len(s) : s[i] = s[j] => i = j

\* The first index of x in s (0 when absent): iter().enumerate().find(..).
IndexOf(s, x) == IF x \in Range(s) THEN CHOOSE i \in 1..Len(s) : s[i] = x /\ \A j \in 1..(i - 1) : s[j] # x ELSE 0

\* VecDeque::swap_remove_back(index): the element at index is replaced by the
\* last element, and the deque shrinks by one.
swap_remove_back(s, i) ==
    IF i = Len(s) THEN SubSeq(s, 1, Len(s) - 1)
    ELSE [k \in 1..(Len(s) - 1) |-> IF k = i THEN s[Len(s)] ELSE s[k]]

(***************************************************************************)
(* InterestQueue (interest.rs 281-368).                                    *)
(***************************************************************************)
\* Bound: the elements offered to the stand-alone InterestQueue are 1..QueueElems.
QueueElems == 4

QueueElem == 1..QueueElems

\* pop_front's None
None == 0

InterestQueueNew == [contains |-> {}, queue |-> <<>>]

push_back_bug(q, x) ==
    [contains |-> q.contains \cup {x}, queue |-> Append(q.queue, x)]

\* push_back: append unless the dedup set already holds x.
push_back(q, x) ==
    IF x \notin q.contains
    THEN [contains |-> q.contains \cup {x}, queue |-> Append(q.queue, x)]
    ELSE q

\* push_back's return value: whether x was already in.
push_back_ret(q, x) == x \in q.contains

push_front_bug(q, x) ==
    [contains |-> q.contains \cup {x}, queue |-> <<x>> \o q.queue]

\* push_front: put x at the head; when the set holds x, its old occurrence
\* is taken out with swap_remove_back first.
push_front(q, x) ==
    IF x \notin q.contains
    THEN [contains |-> q.contains \cup {x}, queue |-> <<x>> \o q.queue]
    ELSE [contains |-> q.contains,
          queue |-> <<x>> \o swap_remove_back(q.queue, IndexOf(q.queue, x))]

push_front_ret(q, x) == x \in q.contains

\* the expect() of push_front: the set holds x, the deque does not.
push_front_panics(q, x) == x \in q.contains /\ x \notin Range(q.queue)

pop_front_bug(q) ==
    IF q.queue # <<>>
    THEN [contains |-> q.contains, queue |-> Tail(q.queue)]
    ELSE q

\* pop_front: the head leaves the deque and the set.
pop_front(q) ==
    IF q.queue # <<>>
    THEN [contains |-> q.contains \ {Head(q.queue)}, queue |-> Tail(q.queue)]
    ELSE q

pop_front_ret(q) == IF q.queue # <<>> THEN Head(q.queue) ELSE None

QInit ==
    /\ iq = InterestQueueNew
    /\ qcall = [op |-> "new", arg |-> None, retb |-> FALSE, retv |-> None]
    /\ arrival = <<>>
    /\ fifo = TRUE

QPushBack(x) ==
    /\ iq' = push_back(iq, x)
    /\ qcall' = [op |-> "push_back", arg |-> x, retb |-> push_back_ret(iq, x), retv |-> None]
    /\ arrival' = IF x \in Range(arrival) THEN arrival ELSE Append(arrival, x)
    /\ UNCHANGED <<fifo, notq>>

QPushFront(x) ==
    /\ ~push_front_panics(iq, x)
    /\ iq' = push_front(iq, x)
    /\ qcall' = [op |-> "push_front", arg |-> x, retb |-> push_front_ret(iq, x), retv |-> None]
    /\ arrival' = IF x \in Range(arrival) THEN arrival ELSE Append(arrival, x)
    /\ fifo' = FALSE
    /\ UNCHANGED notq

QPopFront ==
    /\ iq' = pop_front(iq)
    /\ qcall' = [op |-> "pop_front", arg |-> None, retb |-> FALSE, retv |-> pop_front_ret(iq)]
    /\ arrival' = SelectSeq(arrival, LAMBDA e : e # pop_front_ret(iq))
    /\ fifo' = (fifo \/ Len(iq.queue) <= 1)
    /\ UNCHANGED notq

QNext ==
    \/ \E x \in QueueElem : QPushBack(x)
    \/ \E x \in QueueElem : QPushFront(x)
    \/ QPopFront

(***************************************************************************)
(* NetworkAck (ack.rs 30-83).  The u32 bitset is the set of its set bit     *)
(* indices; bit k stands for tick base - 1 - k.                            *)
(***************************************************************************)
\* width of NetworkAck::ack (u32)
AckBits == 32

BitIndex == 0..(AckBits - 1)

\* Bound: the number of NetworkAck calls in a run.
MaxAckOps == 3

\* u32 << k for 0 <= k < 32: bits shifted past bit 31 are dropped.
shl(bits, k) == {i + k : i \in bits} \cap BitIndex

\* `<<` with a shift amount outside 0..31 overflows: a panic when overflow
\* checks are on, and otherwise the amount is masked to its low five bits.
shl_overflows(k) == k < 0 \/ k >= AckBits

wrapping_shl(bits, k) == shl(bits, k % AckBits)

NetworkAck_new(b) == [base |-> b, ack |-> {}]

\* ack(tick): diff = base - tick - 1; if diff >= 0 && diff <= 32, ack |= 1 << diff.
NetworkAck_ack(a, tick) ==
    LET diff == a.base - tick - 1
    IN  IF diff >= 0 /\ diff <= 32
        THEN [a EXCEPT !.ack = a.ack \cup wrapping_shl({0}, diff)]
        ELSE a

NetworkAck_ack_overflows(a, tick) ==
    LET diff == a.base - tick - 1
    IN  diff >= 0 /\ diff <= 32 /\ shl_overflows(diff)

\* apply_ack(other): base_diff = base - other.base;
\* if base_diff > 0, ack |= other.ack << base_diff.
NetworkAck_apply_ack(a, other) ==
    LET base_diff == a.base - other.base
    IN  IF base_diff > 0
        THEN [a EXCEPT !.ack = a.ack \cup wrapping_shl(other.ack, base_diff)]
        ELSE a

NetworkAck_apply_ack_overflows(a, other) ==
    LET base_diff == a.base - other.base
    IN  base_diff > 0 /\ shl_overflows(base_diff)

Max(x, y) == IF x >= y THEN x ELSE y

\* the sequence lo, lo+1, .., hi-1 (a Rust range lo..hi)
RangeSeq(lo, hi) == [k \in 1..Max(hi - lo, 0) |-> lo + k - 1]

Reverse(s) == [k \in 1..Len(s) |-> s[Len(s) + 1 - k]]

\* the first loop of set_base without the `.rev()` of its range
set_base_window_forward(a, new_base) ==
    LET base_diff == new_base - a.base
        indexes == RangeSeq(Max(32 - base_diff, 0), 32)
        lost == SelectSeq(indexes, LAMBDA index : a.base - index > 0 /\ index \notin a.ack)
    IN  [k \in 1..Len(lost) |-> a.base - lost[k] - 1]

\* set_base, first loop: for index in ((32 - base_diff).max(0)..32).rev(),
\* tick_num = base - index; when tick_num > 0 and bit index is clear, the tick
\* tick_num - 1 is unacked.
set_base_window(a, new_base) ==
    LET base_diff == new_base - a.base
        indexes == Reverse(RangeSeq(Max(32 - base_diff, 0), 32))
        lost == SelectSeq(indexes, LAMBDA index : a.base - index > 0 /\ index \notin a.ack)
    IN  [k \in 1..Len(lost) |-> a.base - lost[k] - 1]

set_base_extended_inclusive(a, new_base) ==
    IF new_base - a.base >= 32 THEN RangeSeq(a.base + 32, new_base + 1) ELSE <<>>

\* set_base, the extension: when base_diff >= 32 the ticks
\* base + 32 .. new_base are unacked too.
set_base_extended(a, new_base) ==
    IF new_base - a.base >= 32 THEN RangeSeq(a.base + 32, new_base) ELSE <<>>

\* set_base's return value
set_base_ret(a, new_base) == set_base_window(a, new_base) \o set_base_extended(a, new_base)

\* set_base's effect: the bitset is cleared (base_diff >= 32) or slid
\* (0 < base_diff < 32), and the base replaced.
NetworkAck_set_base(a, new_base) ==
    LET base_diff == new_base - a.base
    IN  [base |-> new_base,
         ack |-> IF base_diff >= 32 THEN {}
                 ELSE IF base_diff > 0 THEN shl(a.ack, base_diff)
                 ELSE a.ack]

\* The inputs: starting bases, ticks given by their distance below the base,
\* base moves, and the acks merged in.
AckBases == {0, 1, 21, 101}

AckDiffs == {-1, 0, 1, 19, 31, 32, 33}

BaseJumps == {-1, 0, 1, 14, 31, 32, 33}

OtherDiffs == {-1, 0, 1, 10, 31, 32, 33}

OtherBits == {{0}, {0, 1, 31}}

\* the ticks the 32 bits of a NetworkAck stand for: bit k is tick base - 1 - k
window(a) == {t \in (a.base - AckBits)..(a.base - 1) : t >= 0}

\* the ticks a NetworkAck marks as acknowledged
acked_ticks(a) == {a.base - 1 - k : k \in a.ack} \cap window(a)

\* the elements a sequence holds more than once
repeated(s) == {s[i] : i \in {j \in DOMAIN s : \E k \in DOMAIN s : k # j /\ s[k] = s[j]}}

NoAckCall == [op |-> "new", arg |-> 0, other |-> NetworkAck_new(0),
              pre |-> NetworkAck_new(0), ret |-> <<>>]

AIdle ==
    /\ na = NetworkAck_new(0)
    /\ acall = NoAckCall
    /\ apanic = FALSE
    /\ overflow_checks = FALSE
    /\ aops = 0
    /\ base0 = 0
    /\ minbase = 0
    /\ acked = {}
    /\ returned = {}
    /\ twice = {}
    /\ monotone = TRUE

AInit ==
    /\ \E b \in AckBases : na = NetworkAck_new(b) /\ base0 = b /\ minbase = b
    /\ acall = NoAckCall
    /\ apanic = FALSE
    /\ overflow_checks \in BOOLEAN
    /\ aops = 0
    /\ acked = {}
    /\ returned = {}
    /\ twice = {}
    /\ monotone = TRUE

ACanCall == ~apanic /\ aops < MaxAckOps

AAck(tick) ==
    /\ ACanCall
    /\ tick >= 0
    /\ aops' = aops + 1
    /\ acall' = [op |-> "ack", arg |-> tick, other |-> NetworkAck_new(0), pre |-> na, ret |-> <<>>]
    /\ IF overflow_checks /\ NetworkAck_ack_overflows(na, tick)
       THEN apanic' = TRUE /\ na' = na
       ELSE apanic' = FALSE /\ na' = NetworkAck_ack(na, tick)
    /\ acked' = acked \cup ({tick} \cap window(na))
    /\ UNCHANGED <<overflow_checks, base0, minbase, returned, twice, monotone, nota>>

AApplyAck(other) ==
    /\ ACanCall
    /\ other.base >= 0
    /\ aops' = aops + 1
    /\ acall' = [op |-> "apply_ack", arg |-> 0, other |-> other, pre |-> na, ret |-> <<>>]
    /\ IF overflow_checks /\ NetworkAck_apply_ack_overflows(na, other)
       THEN apanic' = TRUE /\ na' = na
       ELSE apanic' = FALSE /\ na' = NetworkAck_apply_ack(na, other)
    /\ acked' = acked \cup (IF na.base >= other.base
                             THEN acked_ticks(other) \cap window(na) ELSE {})
    /\ UNCHANGED <<overflow_checks, base0, minbase, returned, twice, monotone, nota>>

ASetBase(new_base) ==
    /\ ACanCall
    /\ new_base >= 0
    /\ aops' = aops + 1
    /\ acall' = [op |-> "set_base", arg |-> new_base, other |-> NetworkAck_new(0),
                 pre |-> na, ret |-> set_base_ret(na, new_base)]
    /\ na' = NetworkAck_set_base(na, new_base)
    /\ minbase' = IF new_base < minbase THEN new_base ELSE minbase
    /\ returned' = returned \cup Range(set_base_ret(na, new_base))
    /\ twice' = twice \cup (Range(set_base_ret(na, new_base)) \cap returned)
                      \cup repeated(set_base_ret(na, new_base))
    /\ monotone' = (monotone /\ new_base >= na.base)
    /\ UNCHANGED <<apanic, overflow_checks, base0, acked, nota>>

ANext ==
    \/ \E d \in AckDiffs : AAck(na.base - 1 - d)
    \/ \E d \in OtherDiffs, bits \in OtherBits : AApplyAck([base |-> na.base - d, ack |-> bits])
    \/ \E d \in BaseJumps : ASetBase(na.base + d)

(***************************************************************************)
(* The server's interest pipeline (interest.rs 17-248, demands.rs).        *)
(***************************************************************************)
RESEND_INTEREST_BUFFER == 32

DEFAULT_ESTIMATE == 128

\* Bound: the server tick stops at MaxTick.
MaxTick == 34

\* Bound: the number of server interest operations in a run.
MaxSOps == 7

Clients == {1, 2}

Entity == {1, 2}

ReplicateId == {1, 2, 3}

\* Interest = (Entity, ReplicateId); the entities carrying each component
Interests == {<<1, 1>>, <<1, 2>>, <<1, 3>>, <<2, 1>>}

\* How far the tick moves between two looks at the pipeline.
TickSteps == {1, 32}

\* ReplicateMaxSize, ReplicateSizeEstimates (a missing entry is
\* DEFAULT_ESTIMATE) and ReplicateDemands.require.
Configs ==
    { [max |-> 1500, est |-> (1 :> 600 @@ 2 :> 600 @@ 3 :> 400), require |-> <<>>],
      [max |-> 900, est |-> (1 :> 500 @@ 2 :> 500), require |-> (1 :> <<2>>)],
      [max |-> 300, est |-> <<>>, require |-> (1 :> <<2>>)] }

\* the estimate table with every entry taken as missing
estimates_get_default(c, id) == DEFAULT_ESTIMATE

estimates_get(c, id) == IF id \in DOMAIN c.est THEN c.est[id] ELSE DEFAULT_ESTIMATE

\* grouped_ids without the ids demands.require gives
grouped_ids_alone(c, id) == <<id>>

\* grouped_ids: the popped id, then its required ids
grouped_ids(c, id) == <<id>> \o (IF id \in DOMAIN c.require THEN c.require[id] ELSE <<>>)

RECURSIVE SumSeq(_)
SumSeq(s) == IF s = <<>> THEN 0 ELSE Head(s) + SumSeq(Tail(s))

saturating_sub(a, b) == IF a >= b THEN a - b ELSE 0

\* One client's loop of queue_interests: pop, estimate the group, and either
\* append the group to the outgoing list or keep the popped interest in
\* unsent and continue (space_left > 30) or break.
RECURSIVE queue_loop(_, _, _, _, _)
queue_loop(c, q, used, out, unsent) ==
    IF q.queue = <<>> THEN [q |-> q, out |-> out, unsent |-> unsent]
    ELSE LET interest == pop_front_ret(q)
             q1 == pop_front(q)
             group == grouped_ids(c, interest[2])
             estimate == SumSeq([k \in 1..Len(group) |-> estimates_get(c, group[k])])
             space_left == saturating_sub(c.max, used + estimate)
         IN  IF used + estimate > c.max
             THEN IF space_left > 30
                  THEN queue_loop(c, q1, used, out, Append(unsent, interest))
                  ELSE [q |-> q1, out |-> out, unsent |-> Append(unsent, interest)]
             ELSE queue_loop(c, q1, used + estimate,
                             out \o [k \in 1..Len(group) |-> <<interest[1], group[k]>>], unsent)

\* push_front of every element of s, first to last
RECURSIVE push_front_all(_, _)
push_front_all(q, s) ==
    IF s = <<>> THEN q ELSE push_front_all(push_front(q, Head(s)), Tail(s))

repush_none(q, unsent) == q

\* the unsent interests pushed to the back of the queue
RECURSIVE repush_back(_, _)
repush_back(q, unsent) ==
    IF unsent = <<>> THEN q ELSE repush_back(push_back(q, Head(unsent)), Tail(unsent))

\* for interest in unsent.into_iter().rev() { queue.push_front(interest) }
repush(q, unsent) == push_front_all(q, Reverse(unsent))

\* One client's pass of queue_interests: the queue left and the list to send.
queue_pass(c, q) ==
    LET r == queue_loop(c, q, 0, <<>>, <<>>)
    IN  [q |-> repush(r.q, r.unsent), out |-> r.out]

\* UnackedInterests::record: unacked.entry(tick).or_default().extend(interests)
record(u, tick, interests) ==
    IF tick \in DOMAIN u
    THEN [u EXCEPT ![tick] = @ \o interests]
    ELSE u @@ (tick :> interests)

\* the ticks of a ledger that resend_unacked resends, in ascending order
RECURSIVE SortedSeq(_)
SortedSeq(S) ==
    IF S = {} THEN <<>>
    ELSE LET m == CHOOSE x \in S : \A y \in S : x <= y
         IN  <<m>> \o SortedSeq(S \ {m})

resend_ticks(u, current_tick) ==
    {t \in DOMAIN u : current_tick - t < RESEND_INTEREST_BUFFER}

RECURSIVE concat_ticks(_, _)
concat_ticks(u, ticks) ==
    IF ticks = <<>> THEN <<>> ELSE u[Head(ticks)] \o concat_ticks(u, Tail(ticks))

\* UnackedInterests::resend_unacked on the queue: every interest of the
\* resent ticks is pushed to the front, tick by tick.
resend_queue(u, current_tick, q) ==
    push_front_all(q, concat_ticks(u, SortedSeq(resend_ticks(u, current_tick))))

\* UnackedInterests::resend_unacked on the ledger: the resent ticks leave it.
resend_ledger(u, current_tick) ==
    [t \in (DOMAIN u) \ resend_ticks(u, current_tick) |-> u[t]]

\* ClientInterestQueues::entry: the client's queue, created empty if missing
queues_entry(qs, c) == IF c \in DOMAIN qs THEN qs[c] ELSE InterestQueueNew

NoClient == 0

SInit ==
    /\ stick = 0
    /\ queues = <<>>
    /\ to_send = <<>>
    /\ unacked = <<>>
    /\ baseload = <<>>
    /\ cfg \in Configs
    /\ scall = [op |-> "new", client |-> NoClient, tick |-> 0]
    /\ sops = 0
    /\ queued_at = 0
    /\ owed = [c \in Clients |-> {}]
    /\ fresh = [c \in Clients |-> {}]

SIdle ==
    /\ stick = 0
    /\ queues = <<>>
    /\ to_send = <<>>
    /\ unacked = <<>>
    /\ baseload = <<>>
    /\ cfg = [max |-> 1500, est |-> <<>>, require |-> <<>>]
    /\ scall = [op |-> "new", client |-> NoClient, tick |-> 0]
    /\ sops = 0
    /\ queued_at = 0
    /\ owed = [c \in Clients |-> {}]
    /\ fresh = [c \in Clients |-> {}]

\* setup_baseload: ServerEvent::ClientConnected marks the client.
SConnect(c) ==
    /\ sops < MaxSOps
    /\ sops' = sops + 1
    /\ UNCHANGED queued_at
    /\ baseload' = [k \in (DOMAIN baseload) \cup {c} |-> IF k = c THEN TRUE ELSE baseload[k]]
    /\ scall' = [op |-> "connect", client |-> c, tick |-> stick]
    /\ UNCHANGED <<stick, queues, to_send, unacked, cfg, owed, fresh, nots>>

\* the interests (e, id) of the entities es that carry component id, in
\* entity order (the order of the Query)
query(id, es) ==
    LET found == SortedSeq({e \in es : <<e, id>> \in Interests})
    IN  [k \in 1..Len(found) |-> <<found[k], id>>]

RECURSIVE push_back_all(_, _)
push_back_all(q, s) ==
    IF s = <<>> THEN q ELSE push_back_all(push_back(q, Head(s)), Tail(s))

\* baseload_components::<C>: every marked client gets (e, C) pushed back for
\* every entity with C.  clear_baseloads leaves the marks as they are.
SBaseload(id) ==
    /\ sops < MaxSOps
    /\ sops' = sops + 1
    /\ UNCHANGED queued_at
    /\ \E c \in DOMAIN baseload : baseload[c]
    /\ queues' = [c \in (DOMAIN queues) \cup {k \in DOMAIN baseload : baseload[k]} |->
                    IF c \in DOMAIN baseload /\ baseload[c]
                    THEN push_back_all(queues_entry(queues, c), query(id, Entity))
                    ELSE queues[c]]
    /\ scall' = [op |-> "baseload", client |-> NoClient, tick |-> stick]
    /\ UNCHANGED <<stick, to_send, unacked, baseload, cfg, owed, fresh, nots>>

\* clear_baseloads on the marks: the loop visits every client and its body,
\* `//*should_load = false;`, is commented out
clear_baseloads(b) == [c \in DOMAIN b |-> b[c]]

\* clear_baseloads, the system labelled "clear_baseload" that the
\* baseload_components systems run before.
SClearBaseloads ==
    /\ sops < MaxSOps
    /\ sops' = sops + 1
    /\ UNCHANGED queued_at
    /\ DOMAIN baseload # {}
    /\ baseload' = clear_baseloads(baseload)
    /\ scall' = [op |-> "clear_baseloads", client |-> NoClient, tick |-> stick]
    /\ UNCHANGED <<stick, queues, to_send, unacked, cfg, owed, fresh, nots>>

\* component_changes::<C>: the changed (e, C) are pushed back on every
\* client queue there is.
SChanges(changes) ==
    /\ sops < MaxSOps
    /\ sops' = sops + 1
    /\ UNCHANGED queued_at
    /\ changes # <<>>
    /\ DOMAIN queues # {}
    /\ queues' = [c \in DOMAIN queues |-> push_back_all(queues[c], changes)]
    /\ owed' = [c \in Clients |-> IF c \in DOMAIN queues THEN owed[c] \cup Range(changes) ELSE owed[c]]
    /\ fresh' = [c \in Clients |-> IF c \in DOMAIN queues THEN fresh[c] \cup Range(changes) ELSE fresh[c]]
    /\ scall' = [op |-> "changes", client |-> NoClient, tick |-> stick]
    /\ UNCHANGED <<stick, to_send, unacked, baseload, cfg, nots>>

\* queue_interests: to_send is cleared, every client queue is passed over,
\* and what is to be sent is recorded in the ledger at the current tick.
SQueueInterests ==
    LET pass == [c \in DOMAIN queues |-> queue_pass(cfg, queues[c])]
        sending == {c \in DOMAIN queues : pass[c].out # <<>>}
        sent == [c \in (DOMAIN to_send) \cup sending |->
                    IF c \in sending THEN pass[c].out ELSE <<>>]
    IN  /\ sops < MaxSOps
        /\ sops' = sops + 1
        /\ queued_at < stick
        /\ queued_at' = stick
        /\ DOMAIN queues # {}
        /\ queues' = [c \in DOMAIN queues |-> pass[c].q]
        /\ to_send' = sent
        /\ unacked' = [c \in (DOMAIN unacked) \cup (DOMAIN sent) |->
                          IF c \in DOMAIN sent
                          THEN record(IF c \in DOMAIN unacked THEN unacked[c] ELSE <<>>, stick, sent[c])
                          ELSE unacked[c]]
        /\ fresh' = [c \in Clients |-> IF c \in DOMAIN sent THEN fresh[c] \ Range(sent[c]) ELSE fresh[c]]
        /\ scall' = [op |-> "queue_interests", client |-> NoClient, tick |-> stick]
        /\ UNCHANGED <<stick, baseload, cfg, owed, nots>>

\* resend_unacked: for every client of the ledger, the interests of the
\* ticks within the resend buffer go to the front of its queue.
SResend ==
    /\ sops < MaxSOps
    /\ sops' = sops + 1
    /\ UNCHANGED queued_at
    /\ DOMAIN unacked # {}
    /\ queues' = [c \in (DOMAIN queues) \cup (DOMAIN unacked) |->
                    IF c \in DOMAIN unacked
                    THEN resend_queue(unacked[c], stick, queues_entry(queues, c))
                    ELSE queues[c]]
    /\ unacked' = [c \in DOMAIN unacked |-> resend_ledger(unacked[c], stick)]
    /\ scall' = [op |-> "resend_unacked", client |-> NoClient, tick |-> stick]
    /\ UNCHANGED <<stick, to_send, baseload, cfg, owed, fresh, nots>>

\* ClientUnackedInterests::ack(client, tick): the tick leaves the ledger.
SLedgerAck(c, t) ==
    /\ sops < MaxSOps
    /\ sops' = sops + 1
    /\ UNCHANGED queued_at
    /\ c \in DOMAIN unacked
    /\ t \in DOMAIN unacked[c]
    /\ unacked' = [unacked EXCEPT ![c] = [k \in (DOMAIN unacked[c]) \ {t} |-> unacked[c][k]]]
    /\ owed' = [owed EXCEPT ![c] = @ \ (Range(unacked[c][t]) \ fresh[c])]
    /\ scall' = [op |-> "ack", client |-> c, tick |-> t]
    /\ UNCHANGED <<stick, queues, to_send, baseload, cfg, fresh, nots>>

\* NetworkTick::increment_tick, d times in a row
STick(d) ==
    /\ sops < MaxSOps
    /\ sops' = sops + 1
    /\ UNCHANGED queued_at
    /\ stick + d <= MaxTick
    /\ stick' = stick + d
    /\ scall' = [op |-> "tick", client |-> NoClient, tick |-> stick + d]
    /\ UNCHANGED <<queues, to_send, unacked, baseload, cfg, owed, fresh, nots>>

SNext ==
    \/ \E c \in Clients : SConnect(c)
    \/ \E id \in ReplicateId : SBaseload(id)
    \/ SClearBaseloads
    \/ \E id \in ReplicateId, es \in SUBSET Entity :
           SChanges(query(id, es))
    \/ SQueueInterests
    \/ SResend
    \/ \E c \in Clients, t \in 0..MaxTick : SLedgerAck(c, t)
    \/ \E d \in TickSteps : STick(d)

(***************************************************************************)
(* The client's fixed timestep driver (stage.rs 127-203) with the systems  *)
(* the client plugins put in its sub-stages (plugin.rs 68-81, 312-354):    *)
(*   meta:           client_update_input_buffer, client_send_input,        *)
(*                   client_recv_interest, store_snapshot::<C>             *)
(*   rewind:         resim::rewind::<C>                                    *)
(*   input_history:  client_apply_input_buffer                             *)
(*   update_history: client_apply_server_update, client_update::<C>        *)
(*   schedule:       the host's simulation                                 *)
(* One entity with one replicated component C is followed.                 *)
(***************************************************************************)
INPUT_RETAIN_BUFFER == 32

SNAPSHOT_RETAIN_BUFFER == 32

\* Option::None of the NetworkTick and Rewind resources
NoTick == -1

\* the entity has no component C (yet)
NoComp == -1

\* an UpdateMessage whose entity_update holds no value of C
NoVal == -2

\* the tick rate SabiPlugin::tick_rate, in model time units: one unit is a
\* hundredth of the step, the grain of accel(0.01) / decel(0.01)
Step == 100

\* Bound: component values are 0 .. CompMod - 1.
CompMod == 5

\* Bound: the number of application updates in a run.
MaxDOps == 3

\* the values of the input resource I; I::default() is 0
Inputs == {0, 1}

\* the frame deltas Time::delta() takes
Deltas == {Step \div 2, Step, 2 * Step}

\* the component value a server update carries
ServerVal == 3

\* the host's simulation (the systems of `schedule`): a deterministic
\* function of the component and the input resource; it does not commute
\* over the inputs
Sim(c, i) == IF c = NoComp THEN NoComp ELSE (2 * c + i + 1) % CompMod

NetworkSimulationInfo_new(timestep) ==
    [step |-> timestep, accumulator |-> 0, accel |-> TRUE, accel_step |-> 0]

\* Duration::mul_f64(percentage), the percentage in hundredths
mul_pct(d, pct) == (d * pct) \div 100

info_accel(i, pct) == [i EXCEPT !.accel = TRUE, !.accel_step = mul_pct(i.step, pct)]

info_decel(i, pct) == [i EXCEPT !.accel = FALSE, !.accel_step = mul_pct(i.step, pct)]

timestep(i) ==
    IF i.accel THEN i.step + i.accel_step ELSE saturating_sub(i.step, i.accel_step)

\* BTreeMap::insert
map_insert(m, k, v) == [x \in (DOMAIN m) \cup {k} |-> IF x = k THEN v ELSE m[x]]

\* keys().max().cloned().unwrap_or_default()
newest_key(m) ==
    IF DOMAIN m = {} THEN 0 ELSE CHOOSE k \in DOMAIN m : \A x \in DOMAIN m : x <= k

\* the retain with `<=` for its `<`
map_retain_inclusive(m, buffer) ==
    LET newest == newest_key(m)
    IN  [x \in {k \in DOMAIN m : newest - k <= buffer} |-> m[x]]

\* retain(|tick, _| newest - tick < buffer)
map_retain(m, buffer) ==
    LET newest == newest_key(m)
    IN  [x \in {k \in DOMAIN m : newest - k < buffer} |-> m[x]]

\* the push with a retain of one tick less than INPUT_RETAIN_BUFFER
QueuedInputs_push_short(q, t, i) == map_retain(map_insert(q, t, i), INPUT_RETAIN_BUFFER - 1)

QueuedInputs_push(q, t, i) == map_retain(map_insert(q, t, i), INPUT_RETAIN_BUFFER)

SnapshotBuffer_push(s, t, c) == map_retain(map_insert(s, t, c), SNAPSHOT_RETAIN_BUFFER)

\* UpdateMessages::push: a message for a tick that has one is merged into
\* it (ComponentsUpdate::apply extends, the newer value wins)
UpdateMessages_push(m, message) ==
    IF message.tick \in DOMAIN m
    THEN [m EXCEPT ![message.tick] = IF message.val # NoVal THEN message.val ELSE @]
    ELSE map_insert(m, message.tick, message.val)

\* client_frame_buffer: rtt / 2 + 2 * deviation + 3 * step; message.lat
\* stands for the round trip and deviation part
client_frame_buffer(i, message) == message.lat + 3 * i.step

\* the world the stage runs on, with the ghosts of the update: the trace,
\* the increments of the step loop, and the rewind_tick and current_tick of
\* the rewind block when it resimulates
world ==
    [tick |-> net_tick, comp |-> comp, pin |-> player_input, ring |-> input_buffer,
     snaps |-> snapshots, upd |-> server_updates, rew |-> rewind_marker,
     ents |-> server_entities,
     winfo |-> info, inbox |-> inbox, trace |-> <<>>, incs |-> 0,
     rewind_tick |-> NoTick, current_tick |-> NoTick]

increment_network_tick(w) == [w EXCEPT !.tick = @ + 1]

\* self.schedule.run(world)
schedule_run(w) ==
    [w EXCEPT !.comp = Sim(w.comp, w.pin), !.trace = Append(@, <<"sim", w.tick>>)]

\* message.entity_update.iter(): the server entities a message has updates
\* of; the model has one server entity, 1, with the one component C
message_entities(message) == IF message.val # NoVal THEN {1} ELSE {}

\* client_recv_interest, the `while let Some(message)` loop; tick0 is the
\* tick resource the system was given
RECURSIVE recv_loop(_, _, _)
recv_loop(acc, tick0, msgs) ==
    IF msgs = <<>> THEN acc
    ELSE LET message == Head(msgs)
             frame_buffer == client_frame_buffer(acc.winfo, message)
             diff == (tick0 - message.tick) * acc.winfo.step
             winfo1 == IF tick0 # NoTick
                       THEN IF diff > frame_buffer THEN info_decel(acc.winfo, 1)
                            ELSE IF diff < frame_buffer THEN info_accel(acc.winfo, 1)
                            ELSE acc.winfo
                       ELSE [acc.winfo EXCEPT !.accumulator = frame_buffer]
             tick_cmd1 == IF tick0 = NoTick THEN message.tick ELSE acc.tick_cmd
             rewind1 == IF acc.rewind = NoTick \/ message.tick < acc.rewind
                        THEN message.tick ELSE acc.rewind
         IN  recv_loop([winfo |-> winfo1,
                        ents |-> acc.ents \cup message_entities(message),
                        upd |-> UpdateMessages_push(acc.upd, message),
                        rewind |-> rewind1,
                        tick_cmd |-> tick_cmd1], tick0, Tail(msgs))

\* self.meta.run(world): the run criteria are taken on the world as the
\* stage finds it, the commands (tick, Rewind) are applied at its end
meta_run(w) ==
    LET has_tick == w.tick # NoTick
        connected == conn = "connected"
        r == recv_loop([winfo |-> w.winfo, ents |-> w.ents, upd |-> w.upd,
                        rewind |-> NoTick, tick_cmd |-> NoTick],
                       w.tick, IF connected THEN w.inbox ELSE <<>>)
    IN  [w EXCEPT
           !.ring = IF has_tick THEN QueuedInputs_push(@, w.tick, w.pin) ELSE @,
           !.winfo = r.winfo,
           !.upd = r.upd,
           !.ents = r.ents,
           !.snaps = IF connected /\ has_tick THEN SnapshotBuffer_push(@, w.tick, w.comp) ELSE @,
           !.tick = IF r.tick_cmd # NoTick THEN r.tick_cmd ELSE @,
           !.rew = IF r.rewind # NoTick THEN r.rewind ELSE @,
           !.inbox = IF connected THEN <<>> ELSE @,
           !.trace = Append(@, <<"meta", w.tick>>)]

\* self.rewind.run(world): resim::rewind::<C>
rewind_run(w) ==
    [w EXCEPT
       !.comp = IF w.tick \in DOMAIN w.snaps /\ w.snaps[w.tick] # NoComp
                THEN w.snaps[w.tick] ELSE @,
       !.trace = Append(@, <<"rewind", w.tick>>)]

\* self.input_history.run(world): client_apply_input_buffer
input_history_run(w) ==
    [w EXCEPT
       !.pin = IF w.tick # NoTick /\ w.tick \in DOMAIN w.ring THEN w.ring[w.tick] ELSE @,
       !.trace = Append(@, <<"input_history", w.tick>>)]

\* self.update_history.run(world): client_apply_server_update, client_update::<C>
update_history_run(w) ==
    [w EXCEPT
       !.comp = IF /\ conn # "none"
                   /\ w.tick # NoTick
                   /\ w.tick \in DOMAIN w.upd
                   /\ w.upd[w.tick] # NoVal
                THEN w.upd[w.tick] ELSE @,
       !.trace = Append(@, <<"update_history", w.tick>>)]

\* the loop test of the step loop with the `<` of a strict comparison
can_step_strict(li) == li.accumulator > timestep(li)

\* while self.info.accumulator >= self.info.timestep()
can_step(li) == li.accumulator >= timestep(li)

\* one pass of the resimulation loop with the meta stage run in it
resim_step_meta(w) ==
    meta_run(update_history_run(input_history_run(schedule_run(increment_network_tick(w)))))

\* the body of `for tick in rewind_tick.tick()..current_tick.tick()`
resim_step(w) ==
    update_history_run(input_history_run(schedule_run(increment_network_tick(w))))

\* for tick in rewind_tick.tick()..current_tick.tick(): the world's tick is
\* the loop's `tick` when a pass starts
\* the resimulation loop over rewind_tick.tick()..=current_tick.tick()
RECURSIVE resim_loop_inclusive(_, _)
resim_loop_inclusive(w, current_tick) ==
    IF w.tick > current_tick THEN w ELSE resim_loop_inclusive(resim_step(w), current_tick)

RECURSIVE resim_loop(_, _)
resim_loop(w, current_tick) ==
    IF w.tick >= current_tick THEN w ELSE resim_loop(resim_step(w), current_tick)

\* the step loop: li is self.info, the stage's copy of the resource
RECURSIVE step_loop(_, _)
step_loop(w, li) ==
    IF can_step(li)
    THEN LET w1 == IF w.tick # NoTick
                   THEN schedule_run([increment_network_tick(w) EXCEPT !.incs = @ + 1])
                   ELSE w
         IN  step_loop(meta_run(w1), [li EXCEPT !.accumulator = @ - timestep(li)])
    ELSE [w |-> w, li |-> li]

\* the rewind block after the step loop
rewind_block(w) ==
    IF w.tick # NoTick /\ w.rew # NoTick
    THEN LET current_tick == w.tick
             rewind_tick == w.rew
             w1 == IF rewind_tick < current_tick
                   THEN resim_loop(
                            update_history_run(input_history_run(rewind_run(
                                [w EXCEPT !.tick = rewind_tick,
                                          !.rewind_tick = rewind_tick,
                                          !.current_tick = current_tick]))),
                            current_tick)
                   ELSE w
         IN  [w1 EXCEPT !.rew = NoTick]
    ELSE w

\* NetworkSimulationStage::run with Time present
stage_run(w, delta) ==
    LET r == step_loop(w, [w.winfo EXCEPT !.accumulator = @ + delta])
        w2 == rewind_block(r.w)
    IN  [w2 EXCEPT !.winfo = r.li] @@ [meta_info |-> r.w.winfo]

\* handle_client_disconnect: the tick it leaves
disconnect_tick(t) == IF conn \in {"disconnected", "none"} THEN NoTick ELSE t

\* handle_client_disconnect: the RenetClient it leaves
disconnect_conn == IF conn = "disconnected" THEN "none" ELSE conn

\* the messages the transport hands over before an update: none, one for
\* the current tick with or without a value of C, or one for the current
\* tick and then one for the tick before
Arrivals ==
    LET base == IF net_tick = NoTick THEN 2 ELSE net_tick
    IN  {<<>>}
        \cup {<<[tick |-> base, val |-> v, lat |-> 0]>> : v \in {NoVal, ServerVal}}
        \cup {<<[tick |-> base, val |-> NoVal, lat |-> 0],
                [tick |-> t, val |-> ServerVal, lat |-> 0]>> : t \in {base - 1} \cap Nat}

DInit ==
    /\ net_tick = 0
    /\ info = NetworkSimulationInfo_new(Step)
    /\ rewind_marker = NoTick
    /\ comp = NoComp
    /\ player_input = 0
    /\ input_buffer = <<>>
    /\ snapshots = <<>>
    /\ server_updates = <<>>
    /\ server_entities = {}
    /\ conn = "connecting"
    /\ inbox = <<>>
    /\ dcall = [op |-> "new", delta |-> 0, pre_acc |-> 0, pre_tick |-> 0,
                meta_info |-> NetworkSimulationInfo_new(Step),
                rewind_tick |-> NoTick, current_tick |-> NoTick]
    /\ trace = <<>>
    /\ dops = 0
    /\ wall = 0
    /\ incs = 0
    /\ steady = TRUE

\* One App::update with Time present: the host writes the input resource,
\* the transport hands over what arrived, NetworkSimulationStage::run runs,
\* and handle_client_disconnect runs in the Update stage after it.
DUpdate(delta, input, arrived) ==
    LET w0 == [world EXCEPT !.pin = input,
                            !.inbox = IF conn = "connected" THEN @ \o arrived ELSE @]
        w == stage_run(w0, delta)
    IN  /\ dops < MaxDOps
        /\ dops' = dops + 1
        /\ conn # "connected" => arrived = <<>>
        /\ net_tick' = disconnect_tick(w.tick)
        /\ conn' = disconnect_conn
        /\ info' = w.winfo
        /\ rewind_marker' = w.rew
        /\ comp' = w.comp
        /\ player_input' = w.pin
        /\ input_buffer' = w.ring
        /\ snapshots' = w.snaps
        /\ server_updates' = w.upd
        /\ server_entities' = w.ents
        /\ inbox' = IF disconnect_conn = "none" THEN <<>> ELSE w.inbox
        /\ trace' = w.trace
        /\ dcall' = [op |-> "update", delta |-> delta, pre_acc |-> info.accumulator,
                     pre_tick |-> net_tick, meta_info |-> w.meta_info,
                     rewind_tick |-> w.rewind_tick, current_tick |-> w.current_tick]
        /\ wall' = wall + delta
        /\ incs' = incs + w.incs
        /\ steady' = (steady /\ net_tick # NoTick /\ info.accel_step = 0
                        /\ disconnect_tick(w.tick) # NoTick)
        /\ UNCHANGED notd

\* One App::update without the Time resource: the stage returns before the
\* step loop; handle_client_disconnect runs as ever.
DUpdateNoTime ==
    /\ dops < MaxDOps
    /\ dops' = dops + 1
    /\ net_tick' = disconnect_tick(net_tick)
    /\ conn' = disconnect_conn
    /\ inbox' = IF disconnect_conn = "none" THEN <<>> ELSE inbox
    /\ steady' = (steady /\ disconnect_tick(net_tick) # NoTick)
    /\ UNCHANGED <<info, rewind_marker, comp, player_input, input_buffer, snapshots,
                   server_updates, dcall, trace, wall, incs, server_entities, notd>>

\* The transport: the connection is established, or is lost.
DTransport(state) ==
    /\ \/ conn = "connecting" /\ state \in {"connected", "disconnected"}
       \/ conn = "connected" /\ state = "disconnected"
    /\ conn' = state
    /\ UNCHANGED <<net_tick, info, rewind_marker, comp, player_input, input_buffer,
                   snapshots, server_updates, inbox, dcall, trace, dops, wall, incs,
                   steady, server_entities, notd>>

\* The host inserts a new RenetClient (new_renet_client).
DConnect ==
    /\ conn = "none"
    /\ conn' = "connecting"
    /\ UNCHANGED <<net_tick, info, rewind_marker, comp, player_input, input_buffer,
                   snapshots, server_updates, inbox, dcall, trace, dops, wall, incs,
                   steady, server_entities, notd>>

DNext ==
    \/ \E delta \in Deltas, input \in Inputs, arrived \in Arrivals :
           DUpdate(delta, input, arrived)
    \/ DUpdateNoTime
    \/ \E state \in {"connected", "disconnected"} : DTransport(state)
    \/ DConnect

(***************************************************************************)
(* The server's receipt of client input (input.rs 36-216, ack.rs 8-28):    *)
(* server_recv_input, a meta system of the server, next to the interest    *)
(* pipeline above.                                                         *)
(***************************************************************************)
\* the length ReceivedHistory::times is kept to
RECEIVED_HISTORY_LEN == 64

\* Bound: the number of server_recv_input runs in a run of the server.
MaxRecvs == 2

\* Option::None of ReceivedHistory::previous
NoTime == -1

\* the time between two frames, in milliseconds
FrameTime == 16

ReceivedHistory_new == [previous |-> NoTime, times |-> <<>>]

\* ReceivedHistory::push
ReceivedHistory_push(h, sample) ==
    LET pushed == IF h.previous # NoTime
                  THEN Append(h.times, saturating_sub(h.previous, sample))
                  ELSE h.times
    IN  [previous |-> sample,
         times |-> IF Len(pushed) > RECEIVED_HISTORY_LEN THEN Tail(pushed) ELSE pushed]

\* ClientReceivedHistory::push
ClientReceivedHistory_push(m, client_id, sample) ==
    IF client_id \in DOMAIN m
    THEN [m EXCEPT ![client_id] = ReceivedHistory_push(@, sample)]
    ELSE m @@ (client_id :> ReceivedHistory_push(ReceivedHistory_new, sample))

\* QueuedInputs::clean_old: retain(|tick, _| current.tick() >= tick.tick())
QueuedInputs_clean_old(q, current) == [t \in {k \in DOMAIN q : current >= k} |-> q[t]]

\* ClientQueuedInputs::clean_old
ClientQueuedInputs_clean_old(m, current) ==
    [c \in DOMAIN m |-> QueuedInputs_clean_old(m[c], current)]

\* QueuedInputs::apply_buffer: every (tick, input) of other is upserted
QueuedInputs_apply_buffer(q, other) ==
    [t \in (DOMAIN q) \cup (DOMAIN other) |-> IF t \in DOMAIN other THEN other[t] ELSE q[t]]

\* ClientQueuedInputs::upsert
ClientQueuedInputs_upsert(m, client, input) ==
    IF client \in DOMAIN m
    THEN [m EXCEPT ![client] = QueuedInputs_apply_buffer(@, input)]
    ELSE m @@ (client :> input)

\* ClientAcks::apply_ack: the first Ack of a client is stored, a later one
\* is merged into it
ClientAcks_apply_ack(m, client_id, ack) ==
    IF client_id \in DOMAIN m
    THEN [m EXCEPT ![client_id] = NetworkAck_apply_ack(@, ack)]
    ELSE m @@ (client_id :> ack)

ClientAcks_apply_ack_overflows(m, client_id, ack) ==
    client_id \in DOMAIN m /\ NetworkAck_apply_ack_overflows(m[client_id], ack)

\* bytes that zstd or bincode reject
Malformed == [ok |-> FALSE, tick |-> 0, ack |-> NetworkAck_new(0), inputs |-> <<>>]

\* The ClientInputMessages a client may send: for the server's tick or a
\* tick of the client's ledger, with the Ack of client_send_input
\* (NetworkAck::new(tick)) or an Ack that marks the tick as received
\* (base tick + 1, bit 0), and the input of that tick.
RMessages(c) ==
    LET ticks == {stick} \cup (IF c \in DOMAIN unacked THEN DOMAIN unacked[c] ELSE {})
    IN  UNION {{[ok |-> TRUE, tick |-> t, ack |-> a, inputs |-> (t :> 1)] :
                    a \in {NetworkAck_new(t), [base |-> t + 1, ack |-> {0}]}} : t \in ticks}
        \cup {Malformed}

\* what waits on the CLIENT_INPUT channel when server_recv_input runs:
\* nothing, or one message of one client
RArrivals ==
    {<<>>} \cup UNION {{<<<<c, message>>>> : message \in RMessages(c)} : c \in Clients}

\* the `while let Some(message)` loop of server_recv_input over the messages
\* <<client_id, message>> waiting; .panic is set when an unwrap or a shift
\* panics
RECURSIVE server_recv_loop(_, _, _)
server_recv_loop(acc, now, msgs) ==
    IF msgs = <<>> \/ acc.panic THEN acc
    ELSE LET client_id == Head(msgs)[1]
             message == Head(msgs)[2]
         IN  IF ~message.ok THEN [acc EXCEPT !.panic = TRUE]
             ELSE LET hist == ClientReceivedHistory_push(acc.hist, client_id, now)
                  IN  IF server_checks
                         /\ ClientAcks_apply_ack_overflows(acc.acks, client_id, message.ack)
                      THEN [acc EXCEPT !.hist = hist, !.panic = TRUE]
                      ELSE server_recv_loop(
                               [hist |-> hist,
                                acks |-> ClientAcks_apply_ack(acc.acks, client_id, message.ack),
                                inputs |-> ClientQueuedInputs_upsert(acc.inputs, client_id,
                                                                     message.inputs),
                                panic |-> FALSE],
                               now, Tail(msgs))

\* ghost: the inputs of a message enter or leave what was promised
promise(p, client_id, inputs) ==
    [p EXCEPT ![client_id] =
        [t \in {k \in (DOMAIN @) \cup (DOMAIN inputs) :
                    k \in DOMAIN inputs => k > stick} |->
            IF t \in DOMAIN inputs THEN inputs[t] ELSE @[t]]]

RECURSIVE promise_all(_, _)
promise_all(p, msgs) ==
    IF msgs = <<>> THEN p
    ELSE promise_all(promise(p, Head(msgs)[1], Head(msgs)[2].inputs), Tail(msgs))

NoMessage == [client |-> NoClient, message |-> Malformed]

RIdle ==
    /\ acks = <<>>
    /\ queued_inputs = <<>>
    /\ recv_history = <<>>
    /\ rnow = 0
    /\ rcall = NoMessage
    /\ rpanic = FALSE
    /\ rops = 0
    /\ entity_input = <<>>
    /\ promised = [c \in Clients |-> <<>>]
    /\ server_checks = FALSE

RInit ==
    /\ acks = <<>>
    /\ queued_inputs = <<>>
    /\ recv_history = <<>>
    /\ rnow = 0
    /\ rcall = NoMessage
    /\ rpanic = FALSE
    /\ rops = 0
    /\ entity_input = <<>>
    /\ promised = [c \in Clients |-> <<>>]
    /\ server_checks \in BOOLEAN

\* server_recv_input in a frame at time now, with the messages msgs waiting
RRecvInput(now, msgs) ==
    LET r == server_recv_loop([hist |-> recv_history, acks |-> acks,
                               inputs |-> ClientQueuedInputs_clean_old(queued_inputs, stick),
                               panic |-> FALSE], now, msgs)
    IN  /\ ~rpanic
        /\ sops < MaxSOps
        /\ sops' = sops + 1
        /\ rops < MaxRecvs
        /\ rops' = rops + 1
        /\ \A k \in DOMAIN msgs : msgs[k][1] \in DOMAIN baseload
        /\ rnow' = now
        /\ recv_history' = r.hist
        /\ acks' = r.acks
        /\ queued_inputs' = r.inputs
        /\ rpanic' = r.panic
        /\ rcall' = IF msgs = <<>> THEN NoMessage
                    ELSE [client |-> msgs[Len(msgs)][1], message |-> msgs[Len(msgs)][2]]
        /\ scall' = [op |-> "recv_input", client |-> NoClient, tick |-> stick]
        /\ UNCHANGED <<stick, queues, to_send, unacked, baseload, cfg, queued_at, owed, fresh>>
        /\ promised' = IF r.panic THEN promised ELSE promise_all(promised, msgs)
        /\ UNCHANGED <<server_checks, entity_input, notsr>>

\* QueuedInputs::get of every lobby player at the tick: the players that have
\* an input queued for it
players_with_input(tick) ==
    {c \in DOMAIN baseload : c \in DOMAIN queued_inputs /\ tick \in DOMAIN queued_inputs[c]}

\* server_apply_input: every lobby player with an input queued for the
\* server's tick has it inserted on its entity; lobby.players holds an
\* entity for every connected client.
RApplyInput ==
    /\ ~rpanic
    /\ sops < MaxSOps
    /\ sops' = sops + 1
    /\ DOMAIN baseload # {}
    /\ entity_input' = [c \in (DOMAIN entity_input) \cup players_with_input(stick) |->
                           IF c \in players_with_input(stick)
                           THEN queued_inputs[c][stick] ELSE entity_input[c]]
    /\ scall' = [op |-> "apply_input", client |-> NoClient, tick |-> stick]
    /\ UNCHANGED <<stick, queues, to_send, unacked, baseload, cfg, queued_at, owed, fresh>>
    /\ UNCHANGED <<acks, queued_inputs, recv_history, rnow, rcall, rpanic, rops,
                   server_checks, promised, notsr>>

\* The ClientInputMessages of a client whose tick runs next to the server's:
\* the Ack of client_send_input and one input, for a tick behind, at or
\* ahead of the server's tick.
RInputMessages ==
    UNION {{[ok |-> TRUE, tick |-> t, ack |-> NetworkAck_new(t), inputs |-> (t :> i)] :
                i \in {1, 2}} : t \in {k \in {stick - 1, stick, stick + 2} : k >= 0}}

RInputArrivals ==
    {<<>>} \cup {<<<<c, message>>>> : c \in Clients, message \in RInputMessages}

\* the systems of the interest pipeline the server runs, while no system
\* has panicked
RConnect(c) == ~rpanic /\ SConnect(c)

RBaseload(id) == ~rpanic /\ SBaseload(id)

RQueueInterests == ~rpanic /\ SQueueInterests

RTick(d) == ~rpanic /\ STick(d)

RNext ==
    \/ \E c \in Clients : RConnect(c)
    \/ \E id \in ReplicateId : RBaseload(id)
    \/ RQueueInterests
    \/ \E d \in TickSteps : RTick(d)
    \/ \E now \in {rnow, rnow + FrameTime}, msgs \in RArrivals : RRecvInput(now, msgs)

\* the server tick by tick: the tick is incremented and the meta systems
\* server_recv_input and server_apply_input run
RINext ==
    \/ \E c \in Clients : RConnect(c)
    \/ RTick(1)
    \/ \E now \in {rnow, rnow + FrameTime}, msgs \in RInputArrivals : RRecvInput(now, msgs)
    \/ RApplyInput

(***************************************************************************)
(* The replicate id table (replicate/mod.rs 48-146).                       *)
(***************************************************************************)
\* Bound: the threads that call replicate_id are 1..ThreadCount.
ThreadCount == 2

\* Bound: the type names asked for are 1..TypeNameCount.
TypeNameCount == 2

Threads == 1..ThreadCount

TypeNames == 1..TypeNameCount

NoName == 0

(***************************************************************************)
(* SnapshotBuffer<C> (resim.rs 14-48) under pushes in any order.           *)
(***************************************************************************)
\* Bound: the ticks pushed are 0 .. MaxSnapTick.
MaxSnapTick == 35

\* Bound: the number of pushes that are not for the tick after the newest.
MaxOddPushes == 2

\* the ticks pushed next to the newest tick held: the next tick, a skipped
\* tick, a jump past the whole buffer, the newest tick again, and older
\* ticks at and around the edge of the retained range
PushTicks ==
    LET newest == newest_key(sbuf)
    IN  {t \in {newest + 1, newest + 2, newest + 33,
                newest, newest - 1, newest - 31, newest - 32} : t >= 0 /\ t <= MaxSnapTick}

BInit ==
    /\ sbuf = <<>>
    /\ bcall = [op |-> "new", tick |-> 0]
    /\ bodd = 0
    /\ iring = <<>>
    /\ icall = [op |-> "new", tick |-> 0, input |-> 0, pre |-> <<>>]
    /\ updates = <<>>
    /\ can_send = [c \in Clients |-> TRUE]
    /\ sent_to = {}
    /\ ucall = [op |-> "new", pre |-> <<>>]
    /\ uops = 0
    /\ types = <<>>
    /\ types_file = <<>>
    /\ tpc = [th \in Threads |-> [pc |-> "idle", name |-> NoName, id |-> 0]]
    /\ treturned = [n \in TypeNames |-> {}]

\* SnapshotBuffer::push(tick, snapshot)
BPush(t) ==
    LET odd == IF t = newest_key(sbuf) + 1 \/ sbuf = <<>> THEN 0 ELSE 1
    IN  /\ bodd + odd <= MaxOddPushes
        /\ bodd' = bodd + odd
        /\ sbuf' = SnapshotBuffer_push(sbuf, t, 0)
        /\ bcall' = [op |-> "push", tick |-> t]
        /\ UNCHANGED <<iring, icall, uvars, tvars, notb>>

BNext == \E t \in PushTicks : BPush(t)

\* Bound: the number of pushes to the input ring that are out of step.
MaxRingOdd == 1

\* the ticks pushed to the input ring, next to the newest tick it holds
RingPushTicks ==
    LET newest == newest_key(iring)
    IN  {t \in {newest + 1, newest + 2, newest + 33,
                newest, newest - 1, newest - 31, newest - 32} : t >= 0 /\ t <= MaxSnapTick}

\* QueuedInputs::push(tick, input); a push is in step when it is for the
\* tick after the newest and carries I::default()
IPush(t, i) ==
    LET odd == IF (t = newest_key(iring) + 1 \/ iring = <<>>) /\ i = 0 THEN 0 ELSE 1
    IN  /\ bodd + odd <= MaxRingOdd
        /\ bodd' = bodd + odd
        /\ iring' = QueuedInputs_push(iring, t, i)
        /\ icall' = [op |-> "push", tick |-> t, input |-> i, pre |-> iring]
        /\ UNCHANGED <<sbuf, bcall, uvars, tvars, notb>>

INext == \E t \in RingPushTicks, i \in Inputs : IPush(t, i)

(***************************************************************************)
(* The server's frames once the pushes have stopped: the queues are filled  *)
(* while the tick is 0, and from then on every step of the driver          *)
(* increments the tick and runs queue_interests (stage.rs 153-165,          *)
(* interest.rs 192-248).                                                   *)
(***************************************************************************)
\* Bound: the number of pushes that fill the queues.
MaxFillOps == 4

\* Bound: the number of frames after the pushes have stopped.
MaxQuietTicks == 6

LConnect(c) == stick = 0 /\ sops < MaxFillOps /\ SConnect(c)

LBaseload(id) == stick = 0 /\ sops < MaxFillOps /\ SBaseload(id)

LChanges(changes) == stick = 0 /\ sops < MaxFillOps /\ SChanges(changes)

\* one step of the driver on the server: increment_network_tick, then the
\* meta stage's queue_interests
SFrame ==
    LET tick == stick + 1
        pass == [c \in DOMAIN queues |-> queue_pass(cfg, queues[c])]
        sending == {c \in DOMAIN queues : pass[c].out # <<>>}
        sent == [c \in (DOMAIN to_send) \cup sending |->
                    IF c \in sending THEN pass[c].out ELSE <<>>]
    IN  /\ stick < MaxQuietTicks
        /\ stick' = tick
        /\ queued_at' = tick
        /\ queues' = [c \in DOMAIN queues |-> pass[c].q]
        /\ to_send' = sent
        /\ unacked' = [c \in (DOMAIN unacked) \cup (DOMAIN sent) |->
                          IF c \in DOMAIN sent
                          THEN record(IF c \in DOMAIN unacked THEN unacked[c] ELSE <<>>, tick, sent[c])
                          ELSE unacked[c]]
        /\ fresh' = [c \in Clients |-> IF c \in DOMAIN sent THEN fresh[c] \ Range(sent[c]) ELSE fresh[c]]
        /\ scall' = [op |-> "queue_interests", client |-> NoClient, tick |-> tick]
        /\ UNCHANGED <<sops, baseload, cfg, owed, nots>>

\* the tick's part of SFrame
frame_step == stick < MaxQuietTicks /\ stick' = stick + 1

LNext ==
    \/ \E c \in Clients : LConnect(c)
    \/ \E id \in ReplicateId : LBaseload(id)
    \/ \E id \in ReplicateId, es \in SUBSET Entity : LChanges(query(id, es))
    \/ SFrame

(***************************************************************************)
(* The server's send loop: server_queue_interest, server_send_interest and  *)
(* server_clear_queue on ClientEntityUpdates (update.rs 326-421).           *)
(***************************************************************************)
\* compressed.len() >= 3000 ends the send (update.rs 414)
MaxMessageLen == 3000

\* Bound: the number of system runs made on the updates.
MaxUOps == 6

\* the compressed length a queued component adds to a client's message:
\* none queued, a small one, one just under the ceiling, one at the ceiling
ComponentLens == {0, 100, 2900, 3000}

\* ClientEntityUpdates::upsert and the insert of one component into it; the
\* update carries the number of components and the compressed length of the
\* message made of them
upsert(ups, c, len) ==
    LET old == IF c \in DOMAIN ups THEN ups[c] ELSE [count |-> 0, len |-> 0]
        new == IF len = 0 THEN old ELSE [count |-> old.count + 1, len |-> old.len + len]
    IN  [k \in DOMAIN ups \cup {c} |-> IF k = c THEN new ELSE ups[k]]

\* the least client id of a non-empty set: the BTreeMap iterates in key order
first_key(S) == CHOOSE c \in S : \A d \in S : c <= d

\* the loop of server_send_interest over the clients still to visit; its
\* value is the set of clients that were sent their message
RECURSIVE send_loop(_, _, _)
send_loop(rest, ups, room) ==
    IF rest = {} THEN {}
    ELSE LET c == first_key(rest)
         IN  IF ~room[c] THEN send_loop(rest \ {c}, ups, room)
             ELSE IF ups[c].count = 0 THEN send_loop(rest \ {c}, ups, room)
             ELSE IF ups[c].len >= MaxMessageLen THEN {}
             ELSE {c} \cup send_loop(rest \ {c}, ups, room)

\* server_queue_interest::<C> for one client of InterestsToSend
UQueue(c, len) ==
    /\ uops < MaxUOps
    /\ ucall.op # "send"
    /\ updates' = upsert(updates, c, len)
    /\ ucall' = [op |-> "queue", pre |-> updates]
    /\ uops' = uops + 1
    /\ UNCHANGED <<can_send, sent_to>>
    /\ UNCHANGED <<sbuf, bcall, bodd, iring, icall, tvars, notb>>

\* the transport's EntityUpdate channel of a client fills up or drains
UChannel(c, room) ==
    /\ uops < MaxUOps
    /\ ucall.op # "send"
    /\ can_send[c] # room
    /\ can_send' = [can_send EXCEPT ![c] = room]
    /\ ucall' = [op |-> "channel", pre |-> updates]
    /\ uops' = uops + 1
    /\ UNCHANGED <<updates, sent_to>>
    /\ UNCHANGED <<sbuf, bcall, bodd, iring, icall, tvars, notb>>

\* server_send_interest
USend ==
    /\ uops < MaxUOps
    /\ ucall.op # "send"
    /\ sent_to' = send_loop(DOMAIN updates, updates, can_send)
    /\ ucall' = [op |-> "send", pre |-> updates]
    /\ uops' = uops + 1
    /\ UNCHANGED <<updates, can_send>>
    /\ UNCHANGED <<sbuf, bcall, bodd, iring, icall, tvars, notb>>

\* server_clear_queue, which runs after server_send_interest
UClear ==
    /\ ucall.op = "send"
    /\ updates' = [c \in DOMAIN updates |-> [count |-> 0, len |-> 0]]
    /\ ucall' = [op |-> "clear", pre |-> updates]
    /\ UNCHANGED <<can_send, sent_to, uops>>
    /\ UNCHANGED <<sbuf, bcall, bodd, iring, icall, tvars, notb>>

UNext ==
    \/ \E c \in Clients, len \in ComponentLens : UQueue(c, len)
    \/ \E c \in Clients, room \in BOOLEAN : UChannel(c, room)
    \/ USend
    \/ UClear

InitSend == BInit /\ QInit /\ AIdle /\ SIdle /\ DInit /\ RIdle /\ updates = <<>>

(***************************************************************************)
(* replicate_id::<T>() called from several threads.  A step is what a       *)
(* thread does while it holds one lock of TYPES (replicate/mod.rs 122-146).  *)
(***************************************************************************)
\* the types.toml contents TYPES is read from when it is first used: no
\* file, or a file that names the first type
TypesFiles == {<<>>, (1 :> 1)}

\* ReplicateTypes::next_id: the largest id of the table plus one
next_id(table) ==
    LET ids == {table[n] : n \in DOMAIN table}
    IN  (IF ids = {} THEN 0 ELSE CHOOSE m \in ids : \A k \in ids : m >= k) + 1

\* the call takes the read lock and looks the name up: a hit returns the
\* id found, a miss drops the read lock
TLookup(th, n) ==
    /\ tpc[th].pc = "idle"
    /\ IF n \in DOMAIN types
       THEN /\ tpc' = [tpc EXCEPT ![th] = [pc |-> "idle", name |-> n, id |-> types[n]]]
            /\ treturned' = [treturned EXCEPT ![n] = @ \cup {types[n]}]
       ELSE /\ tpc' = [tpc EXCEPT ![th] = [pc |-> "missed", name |-> n, id |-> 0]]
            /\ UNCHANGED treturned
    /\ UNCHANGED <<types, types_file>>
    /\ UNCHANGED <<sbuf, bcall, bodd, iring, icall, uvars, notb>>

\* after a miss: the write lock is taken, next_id is read and inserted under
\* the name, the write lock is dropped
TInsert(th) ==
    /\ tpc[th].pc = "missed"
    /\ LET n == tpc[th].name
           id == next_id(types)
       IN  /\ types' = [k \in DOMAIN types \cup {n} |-> IF k = n THEN id ELSE types[k]]
           /\ tpc' = [tpc EXCEPT ![th] = [pc |-> "inserted", name |-> n, id |-> id]]
    /\ UNCHANGED <<types_file, treturned>>
    /\ UNCHANGED <<sbuf, bcall, bodd, iring, icall, uvars, notb>>

\* write_types_file under the read lock, and the return of next_id
TWriteFile(th) ==
    /\ tpc[th].pc = "inserted"
    /\ types_file' = types
    /\ tpc' = [tpc EXCEPT ![th] = [pc |-> "idle", name |-> @.name, id |-> @.id]]
    /\ treturned' = [treturned EXCEPT ![tpc[th].name] = @ \cup {tpc[th].id}]
    /\ UNCHANGED types
    /\ UNCHANGED <<sbuf, bcall, bodd, iring, icall, uvars, notb>>

TNext ==
    \/ \E th \in Threads, n \in TypeNames : TLookup(th, n)
    \/ \E th \in Threads : TInsert(th)
    \/ \E th \in Threads : TWriteFile(th)

\* TYPES is read from types.toml (read_types_file)
TInit ==
    /\ types \in TypesFiles
    /\ types_file = types
    /\ tpc = [th \in Threads |-> [pc |-> "idle", name |-> NoName, id |-> 0]]
    /\ treturned = [n \in TypeNames |-> {}]
    /\ sbuf = <<>>
    /\ bcall = [op |-> "new", tick |-> 0]
    /\ bodd = 0
    /\ iring = <<>>
    /\ icall = [op |-> "new", tick |-> 0, input |-> 0, pre |-> <<>>]
    /\ updates = <<>>
    /\ can_send = [c \in Clients |-> TRUE]
    /\ sent_to = {}
    /\ ucall = [op |-> "new", pre |-> <<>>]
    /\ uops = 0

InitTypes == TInit /\ QInit /\ AIdle /\ SIdle /\ DInit /\ RIdle

(***************************************************************************)
(* The specifications.                                                     *)
(***************************************************************************)
InitQueue == QInit /\ AIdle /\ SIdle /\ DInit /\ RIdle /\ BInit

SpecQueue == InitQueue /\ [][QNext]_vars

InitAck == AInit /\ QInit /\ SIdle /\ DInit /\ RIdle /\ BInit

SpecAck == InitAck /\ [][ANext]_vars

InitInterest == SInit /\ QInit /\ AIdle /\ DInit /\ RIdle /\ BInit

InitDriver == DInit /\ QInit /\ AIdle /\ SIdle /\ RIdle /\ BInit

SpecDriver == InitDriver /\ [][DNext]_vars

SpecInterest == InitInterest /\ [][SNext]_vars

InitRecv == SInit /\ cfg.require = <<>> /\ RInit /\ QInit /\ AIdle /\ DInit /\ BInit

SpecRecv == InitRecv /\ [][RNext]_vars

InitServerInput == SInit /\ cfg.require = <<>> /\ RInit /\ QInit /\ AIdle /\ DInit /\ BInit

SpecServerInput == InitServerInput /\ [][RINext]_vars

InitSnapshot == BInit /\ QInit /\ AIdle /\ SIdle /\ DInit /\ RIdle

SpecSnapshot == InitSnapshot /\ [][BNext]_vars

InitRing == BInit /\ QInit /\ AIdle /\ SIdle /\ DInit /\ RIdle /\ iring = <<>>

SpecRing == InitRing /\ [][INext]_vars

SpecSend == InitSend /\ [][UNext]_vars

SpecTypes == InitTypes /\ [][TNext]_vars

\* the driver steps for as long as the application runs: SFrame is the one
\* step that increments the tick, and it is taken whenever it can be
SpecInterestLive == InitInterest /\ [][LNext]_vars /\ WF_stick(frame_step)

(***************************************************************************)
(* Claims on InterestQueue, checked under SpecQueue.                       *)
(***************************************************************************)
\* C5: after any sequence of push_back, push_front and pop_front the dedup
\* set and the ordered list have the same size and the same elements, and
\* the list holds no element twice.
C5_SetMatchesList ==
    /\ Cardinality(iq.contains) = Len(iq.queue)
    /\ Range(iq.queue) = iq.contains
    /\ NoDup(iq.queue)

\* C5 witness: a promotion of an already queued element, and later a pop,
\* with elements still queued.
C5_Witness ==
    /\ qcall.op = "pop_front"
    /\ qcall.retv # None
    /\ ~fifo
    /\ Len(iq.queue) >= 2

\* C6: push_back(x) is a no-op returning true when x is queued, and otherwise
\* appends x at the tail returning false; pop_front returns the head, which
\* (as long as nothing was pushed to the front) is the element whose first
\* insertion is the oldest, and returns None on an empty queue, unchanged.
C6_DedupFifo ==
    [][ /\ (qcall'.op = "push_back") =>
             IF qcall'.arg \in Range(iq.queue)
             THEN iq' = iq /\ qcall'.retb = TRUE
             ELSE /\ iq'.queue = Append(iq.queue, qcall'.arg)
                  /\ qcall'.retb = FALSE
        /\ (qcall'.op = "pop_front") =>
             IF iq.queue = <<>>
             THEN qcall'.retv = None /\ iq' = iq
             ELSE /\ qcall'.retv = Head(iq.queue)
                  /\ iq'.queue = Tail(iq.queue)
                  /\ (fifo => qcall'.retv = Head(arrival))
      ]_vars

\* C6 witness: a pop that returned the oldest of several pushed elements
\* after a duplicate push_back was refused.
C6_Witness ==
    /\ qcall.op = "pop_front"
    /\ fifo
    /\ qcall.retv # None
    /\ Len(iq.queue) >= 2
    /\ arrival = iq.queue

\* C7: after push_front(x), x is the head and occurs exactly once, whether or
\* not it was queued before, and the queued elements are the old ones plus x.
C7_PushFrontPromotes ==
    [][ (qcall'.op = "push_front") =>
          /\ iq'.queue # <<>>
          /\ Head(iq'.queue) = qcall'.arg
          /\ Count(iq'.queue, qcall'.arg) = 1
          /\ Range(iq'.queue) = Range(iq.queue) \cup {qcall'.arg}
          /\ Len(iq'.queue) = Cardinality(Range(iq.queue) \cup {qcall'.arg})
      ]_vars

\* C7 witness: a push_front of an element that was queued, not at the head.
C7_Witness ==
    /\ qcall.op = "push_front"
    /\ qcall.retb
    /\ Len(iq.queue) >= 3
    /\ Head(iq.queue) = qcall.arg

(***************************************************************************)
(* Claims on NetworkAck, checked under SpecAck.                            *)
(***************************************************************************)
\* C8: ack(t) on an Ack with base b sets bit b-1-t iff 0 <= b-1-t < 32, and
\* leaves the bitset unchanged for every other t (b-1-t = 32 and t >= b
\* included); the call returns normally.
C8_AckMarksIffInWindow ==
    (acall.op = "ack") =>
        /\ ~apanic
        /\ LET d == acall.pre.base - 1 - acall.arg
           IN  IF 0 <= d /\ d < 32
               THEN na.ack = acall.pre.ack \cup {d}
               ELSE na.ack = acall.pre.ack

\* C9: apply_ack(other) with base >= other.base (equal bases and differences
\* of 32 or more included) leaves a tick of self's window acknowledged iff it
\* was acknowledged in self or in other before; with base < other.base the
\* bitset is unchanged; the call returns normally.
C9_MergeKeepsBothAcks ==
    (acall.op = "apply_ack") =>
        /\ ~apanic
        /\ LET base_diff == acall.pre.base - acall.other.base
           IN  IF base_diff >= 0
               THEN na.ack = acall.pre.ack \cup {k \in BitIndex : (k - base_diff) \in acall.other.ack}
               ELSE na.ack = acall.pre.ack

\* C10 as stated: every tick returned by set_base(b') lies in
\* prev_base <= t < b', and no tick before the base the Ack started from is
\* returned.
C10_ReturnedFromPrevBase ==
    (acall.op = "set_base") =>
        \A t \in Range(acall.ret) :
            /\ acall.pre.base <= t
            /\ t < acall.arg
            /\ base0 <= t

\* C10 amended: every tick returned by set_base(b') lies in
\* prev_base - 32 <= t < b' (the ticks that leave the old window lie before
\* prev_base), and no tick more than 32 before the lowest base the Ack has
\* had is returned.
C10_ReturnedFromPrevWindow ==
    (acall.op = "set_base") =>
        \A t \in Range(acall.ret) :
            /\ acall.pre.base - 32 <= t
            /\ t < acall.arg
            /\ minbase - 32 <= t

\* C10 witness: a set_base that returned ticks of the old window and ticks
\* beyond it.
C10_Witness ==
    /\ acall.op = "set_base"
    /\ \E t \in Range(acall.ret) : t < acall.pre.base
    /\ \E t \in Range(acall.ret) : t >= acall.pre.base + 32
    /\ acall.pre.ack # {}

(***************************************************************************)
(* Claims on the server's interest pipeline, checked under SpecInterest.   *)
(***************************************************************************)
in_queue(c, i) == c \in DOMAIN queues /\ i \in Range(queues[c].queue)

in_ledger(c, i) ==
    /\ c \in DOMAIN unacked
    /\ \E t \in DOMAIN unacked[c] : t <= stick /\ i \in Range(unacked[c][t])

\* C1: after every step, an interest pushed for a client by change detection
\* and not acknowledged since is in that client's InterestQueue or in that
\* client's unacked ledger; a queue_interests pass that pops it without
\* sending it does not drop it.
C1_NeverDropped ==
    \A c \in Clients : \A i \in owed[c] : in_queue(c, i) \/ in_ledger(c, i)

\* C1 witness: a queue_interests pass that sent some interests and popped one
\* it could not send, which is owed and back at the head of the queue.
C1_Witness ==
    /\ scall.op = "queue_interests"
    /\ \E c \in DOMAIN queues :
          /\ c \in DOMAIN to_send
          /\ to_send[c] # <<>>
          /\ queues[c].queue # <<>>
          /\ Head(queues[c].queue) \in owed[c]
          /\ ~in_ledger(c, Head(queues[c].queue))

(***************************************************************************)
(* Claims on the fixed timestep driver, checked under SpecDriver.          *)
(***************************************************************************)
\* the ticks at which the sub-stage `kind` ran in the part s of a trace
ticks_of(s, kind) ==
    LET runs == SelectSeq(s, LAMBDA e : e[1] = kind)
    IN  [k \in 1..Len(runs) |-> runs[k][2]]

\* the position of the rewind stage in the trace, past its end if it did not run
rewind_at ==
    IF \E i \in 1..Len(trace) : trace[i][1] = "rewind"
    THEN CHOOSE i \in 1..Len(trace) : trace[i][1] = "rewind"
    ELSE Len(trace) + 1

\* the fixed steps the last update consumed, from the accumulator before and after
consumed == (dcall.pre_acc + dcall.delta - info.accumulator) \div timestep(info)

\* simulating straight through from tick k to tick T on the inputs of the ring
RECURSIVE straight(_, _, _, _)
straight(c, k, T, ring) ==
    IF k >= T THEN c ELSE straight(Sim(c, ring[k + 1]), k + 1, T, ring)

\* the last update rewound to a tick t with a snapshot of the component and
\* resimulated to T, no update stored for t..T holds a value of the component
\* and the ring holds the inputs of t+1..T
clean_rewind ==
    /\ dcall.op = "update"
    /\ dcall.rewind_tick # NoTick
    /\ dcall.rewind_tick \in DOMAIN snapshots
    /\ snapshots[dcall.rewind_tick] # NoComp
    /\ \A k \in dcall.rewind_tick..dcall.current_tick :
          k \in DOMAIN server_updates => server_updates[k] = NoVal
    /\ \A k \in (dcall.rewind_tick + 1)..dcall.current_tick : k \in DOMAIN input_buffer

\* C2: after the driver rewound to tick t and resimulated to the pre-rewind
\* tick T, with no server update value stored for t..T and the input ring
\* holding the inputs recorded for t+1..T, the component is what simulating
\* straight through from the state of tick t with the input of each tick gives.
C2_RewindReplaysStraightRun ==
    clean_rewind =>
        comp = straight(snapshots[dcall.rewind_tick], dcall.rewind_tick,
                        dcall.current_tick, input_buffer)

\* C3: when the frame deltas so far sum to exactly N steps (the tick present
\* all along, the accumulator zero at the start, no acceleration bias), the
\* step loop has incremented the tick exactly N times, however the time was
\* split over the frames.
C3_TicksMatchWallTime ==
    (steady /\ wall % info.step = 0) => incs = wall \div info.step

\* C3 witness: two steps of wall time split over three frames, the last of
\* them half a step, and two increments.
C3_Witness ==
    /\ steady
    /\ dops = 3
    /\ wall = 2 * Step
    /\ dcall.delta = Step \div 2
    /\ incs = 2
    /\ net_tick = 2

\* C4: in an update the meta stage runs once per consumed fixed step and
\* never once the rewind stage has run; in a resimulation from rewind tick t
\* to pre-rewind tick T the simulation runs once for each of t+1..T and the
\* input-history and update-history stages once for each of t..T, in
\* increasing tick order, the simulation of a tick before its history stages.
C4_MetaPerStepResimInOrder ==
    (dcall.op = "update") =>
        LET resim == SubSeq(trace, rewind_at, Len(trace))
        IN  /\ Len(ticks_of(trace, "meta")) = consumed
            /\ ticks_of(resim, "meta") = <<>>
            /\ ticks_of(trace, "rewind") =
                  (IF dcall.rewind_tick # NoTick THEN <<dcall.rewind_tick>> ELSE <<>>)
            /\ (dcall.rewind_tick # NoTick) =>
                  /\ ticks_of(resim, "sim") = RangeSeq(dcall.rewind_tick + 1, dcall.current_tick + 1)
                  /\ ticks_of(resim, "input_history") = RangeSeq(dcall.rewind_tick, dcall.current_tick + 1)
                  /\ ticks_of(resim, "update_history") = RangeSeq(dcall.rewind_tick, dcall.current_tick + 1)
                  /\ \A i, j \in 1..Len(resim) :
                        /\ i < j => resim[i][2] <= resim[j][2]
                        /\ (resim[i][2] = resim[j][2] /\ resim[i][1] = "sim" /\ i # j) => i < j
            /\ (dcall.rewind_tick = NoTick) => resim = <<>>

\* C4 witness: an update that consumed two steps and then resimulated three ticks.
C4_Witness ==
    /\ dcall.op = "update"
    /\ Len(ticks_of(trace, "meta")) = 2
    /\ dcall.rewind_tick # NoTick
    /\ dcall.current_tick - dcall.rewind_tick = 3
    /\ Len(trace) = 4 + 3 + 9

(***************************************************************************)
(* NetworkAck::set_base over sequences of calls (ack.rs 42-82).            *)
(***************************************************************************)

\* C11: set_base never returns a tick that was acknowledged, through ack or
\* through a merge, while the tick was inside the window.
C11_AckedNeverReturned ==
    acall.op = "set_base" => Range(acall.ret) \cap acked = {}

\* C12: while no set_base call lowers the base, no tick is returned as
\* unacked by more than one set_base call, jumps of 32 ticks or more included.
C12_NoTickReturnedTwice ==
    monotone => twice = {}

ascending(s) == \A i, j \in DOMAIN s : i < j => s[i] < s[j]

\* the last call was set_base(new_base) with 0 < new_base - base < 32
slide == acall.op = "set_base" /\ 0 < acall.arg - acall.pre.base
                               /\ acall.arg - acall.pre.base < 32

\* C13: for 0 < new_base - base < 32, set_base(new_base) returns in ascending
\* order exactly the non-negative ticks t with base - 32 <= t < new_base - 32
\* whose bit was clear, and every tick that stays in the window keeps its bit.
C13_SlideReturnsLeavers ==
    slide =>
        LET pre == acall.pre
            new_base == acall.arg
            leavers == {t \in (pre.base - 32)..(new_base - 33) :
                            t >= 0 /\ (pre.base - 1 - t) \notin pre.ack}
        IN  /\ Range(acall.ret) = leavers
            /\ ascending(acall.ret)
            /\ na.base = new_base
            /\ \A t \in (new_base - 32)..(pre.base - 1) :
                   (new_base - 1 - t) \in na.ack <=> (pre.base - 1 - t) \in pre.ack

\* a slide that returned several ticks and kept an acknowledged one
C13_Witness ==
    /\ slide
    /\ Len(acall.ret) >= 2
    /\ acall.pre.ack # {}
    /\ na.ack # {}

\* C14: for base 101 with only tick 100 acknowledged, set_base(134) returns
\* exactly the ticks 101..=132.
C14_OverflowReturns101To132 ==
    (acall.op = "set_base" /\ acall.pre = [base |-> 101, ack |-> {0}] /\ acall.arg = 134)
        => acall.ret = RangeSeq(101, 133)

(***************************************************************************)
(* The server's interest pipeline: budget, queue and ledger                *)
(* (interest.rs 100-248).                                                  *)
(***************************************************************************)

\* the size estimate of one listed interest, from the estimate table
size_of(i) == IF i[2] \in DOMAIN cfg.est THEN cfg.est[i[2]] ELSE DEFAULT_ESTIMATE

\* the sum of the size estimates of a client's outgoing interest list
listed_size(c) == SumSeq([k \in 1..Len(to_send[c]) |-> size_of(to_send[c][k])])

\* C15: for every client, the size estimates of the groups a queue_interests
\* pass appended to the client's outgoing list sum to at most ReplicateMaxSize.
C15_ListWithinBudget ==
    \A c \in DOMAIN to_send : listed_size(c) <= cfg.max

\* a pass that listed a group with a required id and kept an interest back
C15_Witness ==
    /\ scall.op = "queue_interests"
    /\ \E c \in DOMAIN to_send :
           /\ Len(to_send[c]) >= 2
           /\ queues[c].queue # <<>>
           /\ listed_size(c) + size_of(Head(queues[c].queue)) > cfg.max

\* C16: for every client, an interest is never both in the client's
\* InterestQueue and in the client's unacked ledger.
C16_QueueLedgerDisjoint ==
    \A c \in Clients, i \in Interests : ~(in_queue(c, i) /\ in_ledger(c, i))

\* C17: after resend_unacked has run at tick T, the ledger holds no entry
\* whose tick is 32 or more ticks older than T.
C17_LedgerWithinHorizon ==
    scall.op = "resend_unacked" =>
        \A c \in DOMAIN unacked : \A t \in DOMAIN unacked[c] :
            stick - t < RESEND_INTEREST_BUFFER

\* C19: once clear_baseloads has run no client is marked for a baseload, so
\* a client is swept once after it connects and not on later ticks.
C19_BaseloadCleared ==
    scall.op = "clear_baseloads" => \A c \in DOMAIN baseload : ~baseload[c]

\* C18: when server_recv_input has taken a client's message whose Ack marks
\* tick t as received, the client's ledger holds no entry for tick t.
C18_AckedTickLeavesLedger ==
    (scall.op = "recv_input" /\ ~rpanic /\ rcall.client # NoClient) =>
        \A t \in acked_ticks(rcall.message.ack) :
            ~(rcall.client \in DOMAIN unacked /\ t \in DOMAIN unacked[rcall.client])

(***************************************************************************)
(* SnapshotBuffer::push (resim.rs 36-48).                                  *)
(***************************************************************************)

\* C20: after any sequence of pushes the buffer holds at most 32 entries and
\* every key is at least newest - 31, newest being the largest tick held.
C20_SnapshotsWithinRetain ==
    /\ Cardinality(DOMAIN sbuf) <= 32
    /\ \A t \in DOMAIN sbuf : t >= newest_key(sbuf) - 31

\* a full buffer that has just refused a tick 32 older than its newest
C20_Witness ==
    /\ bcall.op = "push"
    /\ Cardinality(DOMAIN sbuf) = 32
    /\ bcall.tick = newest_key(sbuf) - 32
    /\ bcall.tick \notin DOMAIN sbuf

(***************************************************************************)
(* QueuedInputs::push (input.rs 179-191).                                  *)
(***************************************************************************)

\* C21: after QueuedInputs::push(tick, input) the ring holds exactly the keys
\* held before or just pushed that lie in newest - 31 ..= newest, newest the
\* largest of them, with the values they had; the pushed tick holds the
\* pushed input whenever it is within 31 ticks of the newest.
C21_RingKeepsWindow ==
    icall.op = "push" =>
        LET held == (DOMAIN icall.pre) \cup {icall.tick}
            newest == CHOOSE k \in held : \A x \in held : x <= k
        IN  /\ DOMAIN iring = {k \in held : newest - 31 <= k}
            /\ \A k \in (DOMAIN iring) \ {icall.tick} : iring[k] = icall.pre[k]
            /\ icall.tick >= newest - 31 => iring[icall.tick] = icall.input

\* a push that moved the window: the oldest key left the ring, the key at
\* newest - 31 stayed
C21_Witness ==
    /\ icall.op = "push"
    /\ Cardinality(DOMAIN icall.pre) = 32
    /\ icall.tick = newest_key(icall.pre) + 1
    /\ (icall.tick - 32) \in DOMAIN icall.pre
    /\ (icall.tick - 31) \in DOMAIN iring

(***************************************************************************)
(* The server's input queues (input.rs 104-236).                           *)
(***************************************************************************)

\* C22: an input the server received for a tick ahead of its own, and not
\* received again since, is in the client's queue and on the client's lobby
\* entity once server_apply_input has run at that tick.
C22_ForwardInputApplied ==
    scall.op = "apply_input" =>
        \A c \in Clients :
            stick \in DOMAIN promised[c] =>
                /\ c \in DOMAIN queued_inputs
                /\ stick \in DOMAIN queued_inputs[c]
                /\ c \in DOMAIN entity_input
                /\ entity_input[c] = promised[c][stick]

\* a run of server_recv_input that took a message
recv_step == scall'.op = "recv_input" /\ rops' = rops + 1 /\ ~rpanic'
                 /\ rcall'.client # NoClient

\* C23: when server_recv_input merges a received buffer into a client's
\* queue, an entry the queue held for a tick older than the server's tick
\* keeps its value.
C23_OlderEntryWins ==
    [][recv_step =>
          LET c == rcall'.client
          IN  \A t \in DOMAIN rcall'.message.inputs :
                 (t < stick /\ c \in DOMAIN queued_inputs /\ t \in DOMAIN queued_inputs[c])
                     => queued_inputs'[c][t] = queued_inputs[c][t]]_vars

(***************************************************************************)
(* The client driver on a late link: rewind targets, disconnects and time  *)
(* dilation (stage.rs 53-69, 167-201, plugin.rs 381-405, update.rs         *)
(* 219-281).                                                               *)
(***************************************************************************)

\* Bound: the server's tick in the first message of a client that joined a
\* running server
FirstTick == 34

\* Bound: how many ticks behind the client's tick a late message is
LateBy == 33

\* Bound: how many ticks ahead of the client's tick an early message is
EarlyBy == 2

\* the messages the transport hands over before an update on a late link:
\* none, one without a value of C for the current tick, or one with a value
\* of C for a tick LateBy ticks back or EarlyBy ticks ahead
LateArrivals ==
    {<<>>}
    \cup (IF net_tick = NoTick THEN {}
          ELSE {<<[tick |-> net_tick, val |-> NoVal, lat |-> 0]>>}
               \cup {<<[tick |-> t, val |-> ServerVal, lat |-> 0]>> :
                       t \in {net_tick - LateBy, net_tick + EarlyBy} \cap Nat})

\* the client after the update that took its first message, of the server's
\* tick FirstTick: client_recv_interest inserted the tick and kept the
\* message, the stage wrote its own info back (stage.rs 201)
DLateInit ==
    /\ net_tick = FirstTick
    /\ info = NetworkSimulationInfo_new(Step)
    /\ rewind_marker = NoTick
    /\ comp = NoComp
    /\ player_input = 0
    /\ input_buffer = <<>>
    /\ snapshots = <<>>
    /\ server_updates = (FirstTick :> NoVal)
    /\ server_entities = {}
    /\ conn = "connected"
    /\ inbox = <<>>
    /\ dcall = [op |-> "new", delta |-> 0, pre_acc |-> 0, pre_tick |-> 0,
                meta_info |-> NetworkSimulationInfo_new(Step),
                rewind_tick |-> NoTick, current_tick |-> NoTick]
    /\ trace = <<>>
    /\ dops = 0
    /\ wall = 0
    /\ incs = 0
    /\ steady = FALSE

\* the host leaves the input resource as it is
DLateNext ==
    \E delta \in Deltas, arrived \in LateArrivals :
        DUpdate(delta, player_input, arrived)

InitLate == DLateInit /\ QInit /\ AIdle /\ SIdle /\ RIdle /\ BInit

SpecLate == InitLate /\ [][DLateNext]_vars

\* C24: when the rewind block resimulates, it starts no more than 31 ticks
\* before the current tick, so one rewind resimulates at most 31 ticks.
C24_RewindClamped ==
    (dcall.op = "update" /\ dcall.rewind_tick # NoTick)
        => dcall.rewind_tick >= dcall.current_tick - 31

\* C25: once handle_client_disconnect has handled a disconnect the client
\* has no tick, no transport handle, and no mapped server entity.
C25_DisconnectClears ==
    conn = "none" => (net_tick = NoTick /\ server_entities = {})

\* an update with Time of a connected client that has a tick and an empty
\* inbox, in which the meta stage ran: client_recv_interest took what arrived
meta_step ==
    /\ wall' > wall
    /\ conn = "connected"
    /\ net_tick # NoTick
    /\ inbox = <<>>
    /\ \E k \in DOMAIN trace' : trace'[k][1] = "meta"

\* C26: when the message an update takes shows a lead over the server above
\* the frame buffer, the adjustment leaves a timestep above the step (fewer
\* ticks per wall time); when it shows a lead below the frame buffer, a
\* timestep below the step (more ticks per wall time).
C26_DilationFollowsLead ==
    [][meta_step =>
          \A t \in DOMAIN server_updates' \ DOMAIN server_updates :
              LET lead == ((net_tick + 1) - t) * info.step
                  frame_buffer == client_frame_buffer(info, [lat |-> 0])
                  adjusted == dcall'.meta_info
              IN  /\ lead > frame_buffer => timestep(adjusted) > adjusted.step
                  /\ lead < frame_buffer => timestep(adjusted) < adjusted.step]_vars

(***************************************************************************)
(* The queue_interests pass: what it lists, what it keeps, and in which    *)
(* order (interest.rs 193-248), and resend_unacked before it (162-190).    *)
(***************************************************************************)

\* the ids demands.require gives for an id
required_ids(id) == IF id \in DOMAIN cfg.require THEN cfg.require[id] ELSE <<>>

\* an interest with the interests of its required ids on the same entity
group_of(i) == <<i>> \o [k \in 1..Len(required_ids(i[2])) |-> <<i[1], required_ids(i[2])[k]>>]

\* the sum of the size estimates of an interest's group
group_size(i) == SumSeq([k \in 1..Len(group_of(i)) |-> size_of(group_of(i)[k])])

\* what the last pass listed for a client
listed(c) == IF c \in DOMAIN to_send THEN to_send[c] ELSE <<>>

\* the size estimates of what the last pass listed for a client
used_of(c) == SumSeq([k \in 1..Len(listed(c)) |-> size_of(listed(c)[k])])

\* C27: a queue_interests pass that ends with more than 30 bytes of the
\* budget unused has tried every interest of the queue: none of the
\* interests it leaves queued has a group that fits in the space left.
C27_PassTriesLaterInterests ==
    scall.op = "queue_interests" =>
        \A c \in DOMAIN queues :
            cfg.max - used_of(c) > 30 =>
                \A k \in DOMAIN queues[c].queue :
                    used_of(c) + group_size(queues[c].queue[k]) > cfg.max

\* a queue_interests pass
pass_step == queued_at' # queued_at

\* C28: a queue_interests pass leaves in a client's queue the interests it
\* did not list, in the order they had before the pass, so the ones it
\* popped and pushed back are ahead of the ones it did not reach; what it
\* lists starts with the head of the queue, so the next pass begins with the
\* interest pushed back.
C28_PushedBackInOrder ==
    [][pass_step =>
          \A c \in DOMAIN queues :
              LET pre == queues[c].queue
                  post == queues'[c].queue
                  out == listed(c)'
              IN  /\ post = SelectSeq(pre, LAMBDA x : x \in Range(post))
                  /\ \A x \in Range(pre) \ Range(post) : x \in Range(out)
                  /\ out # <<>> => out[1] = Head(pre)]_vars

\* a pass with a budget of 1500 that listed two interests, pushed a third
\* back and left a fourth behind it
C28_Witness ==
    /\ scall.op = "queue_interests"
    /\ cfg.max = 1500
    /\ \E c \in DOMAIN queues :
           /\ Len(listed(c)) = 2
           /\ Len(queues[c].queue) >= 2
           /\ used_of(c) + size_of(Head(queues[c].queue)) > cfg.max

\* a list made of whole groups, each an interest followed by the interests
\* of its required ids
RECURSIVE whole_groups(_)
whole_groups(s) ==
    \/ s = <<>>
    \/ LET n == Len(group_of(Head(s)))
       IN  /\ n <= Len(s)
           /\ SubSeq(s, 1, n) = group_of(Head(s))
           /\ whole_groups(SubSeq(s, n + 1, Len(s)))

\* C29: what a queue_interests pass lists for a client is a run of whole
\* groups; no listed interest has a group estimate above ReplicateMaxSize;
\* and an interest with such a group stays queued, at the front of the
\* queue when the pass listed everything ahead of it.
C29_GroupsAtomic ==
    [][pass_step =>
          \A c \in DOMAIN queues :
              LET pre == queues[c].queue
                  post == queues'[c].queue
                  out == listed(c)'
              IN  /\ whole_groups(out)
                  /\ \A k \in DOMAIN out : group_size(out[k]) <= cfg.max
                  /\ \A k \in DOMAIN pre :
                         group_size(pre[k]) > cfg.max =>
                             /\ pre[k] \in Range(post)
                             /\ (\A j \in 1..(k - 1) : pre[j] \in Range(out))
                                    => Head(post) = pre[k]]_vars

\* a pass that listed an interest and then met one whose group is above the
\* budget, now at the front of the queue
C29_Witness ==
    /\ scall.op = "queue_interests"
    /\ \E c \in DOMAIN queues :
           /\ queues[c].queue # <<>>
           /\ group_size(Head(queues[c].queue)) > cfg.max
           /\ listed(c) # <<>>

\* a run of resend_unacked
resend_step == scall'.op = "resend_unacked" /\ sops' = sops + 1

\* the interests a client's ledger holds at the ticks within the resend
\* buffer of the current tick
within_horizon(c) ==
    UNION {Range(unacked[c][t]) :
             t \in {k \in DOMAIN unacked[c] : stick - k < RESEND_INTEREST_BUFFER}}

\* resend_unacked leaves every interest of the ticks within the resend
\* buffer in the client's queue once, ahead of the other queued interests,
\* and the ledger without those ticks
resent_to_front ==
    resend_step =>
        \A c \in DOMAIN unacked :
            LET resent == within_horizon(c)
                post == queues'[c].queue
            IN  /\ \A x \in resent : Count(post, x) = 1
                /\ \A i, j \in DOMAIN post :
                       (post[i] \in resent /\ post[j] \notin resent) => i < j
                /\ \A t \in DOMAIN unacked[c] :
                       stick - t < RESEND_INTEREST_BUFFER => t \notin DOMAIN unacked'[c]

\* the queue_interests pass that follows resend_unacked at the same tick
\* and lists all that is queued for a client leaves the client's ledger
\* keyed at that tick only
ledger_at_tick_only ==
    (pass_step /\ scall.op = "resend_unacked" /\ scall.tick = stick) =>
        \A c \in DOMAIN unacked' :
            (/\ c \in DOMAIN queues' /\ queues'[c].queue = <<>>
             /\ c \in DOMAIN to_send' /\ to_send'[c] # <<>>)
                => DOMAIN unacked'[c] \subseteq {stick}

\* C30: resend_unacked at tick T puts every interest the ledger holds at a
\* tick t with T - t < 32 in the client's queue, once and ahead of the
\* interests that were not resent, and removes those ticks from the ledger;
\* after the queue_interests pass at T that sends them the ledger is keyed
\* at T only.
C30_ResendThenLedgerAtTick ==
    [][resent_to_front /\ ledger_at_tick_only]_vars

(***************************************************************************)
(* The driver's frame: the rewind block's assertion, the info it writes    *)
(* back, and what the history stages visit (stage.rs 128-202, update.rs    *)
(* 214-293, resim.rs 51-88).                                               *)
(***************************************************************************)

\* an application update with Time
update_step == wall' > wall

\* C31: when the rewind block resimulates, the last stage it runs is at the
\* tick the block started from (the assert_eq of stage.rs 196); after an
\* update that leaves a tick the Rewind marker is absent; and the tick does
\* not decrease from one update to the next.
C31_RewindKeepsTick ==
    [][update_step =>
          /\ dcall'.rewind_tick # NoTick
                 => trace'[Len(trace')] = <<"update_history", dcall'.current_tick>>
          /\ net_tick' # NoTick => rewind_marker' = NoTick
          /\ (net_tick # NoTick /\ net_tick' # NoTick) => net_tick' >= net_tick]_vars

\* an update that resimulated from a late target, after one that took a
\* message ahead of the tick
C31_Witness ==
    /\ dcall.op = "update"
    /\ dcall.rewind_tick # NoTick
    /\ dcall.current_tick - dcall.rewind_tick > 2
    /\ \E t \in DOMAIN server_updates : t > net_tick

\* C32: the step and the acceleration that the meta stage left in
\* NetworkSimulationInfo during an update are the ones the resource holds
\* when the update ends, which the stage reads at the top of the next one.
C32_MetaInfoKept ==
    [][update_step =>
          /\ info'.step = dcall'.meta_info.step
          /\ info'.accel = dcall'.meta_info.accel
          /\ info'.accel_step = dcall'.meta_info.accel_step]_vars

\* C35: every UpdateMessage an update takes for a tick at or before the
\* tick the step loop ends at has the update_history stage run at its tick
\* in that update.
C35_UpdateVisited ==
    [][(update_step /\ conn = "connected" /\ net_tick' # NoTick) =>
          \A t \in DOMAIN server_updates' \ DOMAIN server_updates :
              t <= net_tick' =>
                  \E k \in DOMAIN trace' : trace'[k] = <<"update_history", t>>]_vars

\* C36: after an update that rewound and resimulated up to tick T, the
\* snapshot of tick T is the resimulated value of C, the one the entity has
\* when the update ends.
C36_SnapshotsResimulated ==
    (/\ dcall.op = "update"
     /\ dcall.rewind_tick # NoTick
     /\ net_tick = dcall.current_tick
     /\ dcall.current_tick \in DOMAIN snapshots)
        => snapshots[dcall.current_tick] = comp

(***************************************************************************)
(* The server's housekeeping: clean_old, the receive history, the send     *)
(* loop (input.rs 67-78, 174-177, update.rs 384-421).                      *)
(***************************************************************************)

\* a run of server_recv_input that did not panic
clean_step == scall'.op = "recv_input" /\ rops' = rops + 1 /\ ~rpanic'

\* C33: the clean_old(tick) that server_recv_input starts with keeps every
\* queued input of a tick at or after the server's tick and removes every
\* one of a tick before it (the run's message may put one back).
C33_CleanOldKeepsFuture ==
    [][clean_step =>
          \A c \in DOMAIN queued_inputs :
              \A t \in DOMAIN queued_inputs[c] :
                  /\ t >= stick => t \in DOMAIN queued_inputs'[c]
                  /\ (t < stick /\ ~(rcall'.client = c /\ t \in DOMAIN rcall'.message.inputs))
                         => t \notin DOMAIN queued_inputs'[c]]_vars

\* C34: a client's ReceivedHistory holds at most 64 samples, and the sample
\* server_recv_input records for a message of a client heard before is the
\* time since that client's previous message.
C34_SamplesAreGaps ==
    [][clean_step =>
          /\ \A c \in DOMAIN recv_history' :
                 Len(recv_history'[c].times) <= RECEIVED_HISTORY_LEN
          /\ \A c \in DOMAIN recv_history :
                 (rcall'.client = c /\ recv_history[c].previous # NoTime) =>
                     LET times == recv_history'[c].times
                     IN  /\ times # <<>>
                         /\ times[Len(times)] = rnow' - recv_history[c].previous]_vars

(***************************************************************************)
(* Claims on the server's send loop, checked under SpecSend.               *)
(***************************************************************************)
\* C37: a client whose message reaches the ceiling of 3000 bytes is dropped
\* without keeping any other client from its message: after a run of
\* server_send_interest every client that has room on its channel, a
\* non-empty update and a message under the ceiling was sent to.
C37_OthersStillSent ==
    ucall.op = "send" =>
        \A c \in DOMAIN updates :
            (can_send[c] /\ updates[c].count > 0 /\ updates[c].len < MaxMessageLen)
                => c \in sent_to

(***************************************************************************)
(* A claim on InterestQueue::push_front, checked under SpecQueue.          *)
(***************************************************************************)
\* the queue without the element x, in order
without(queue, x) == SelectSeq(queue, LAMBDA e : e # x)

\* C38: push_front(x) for an x already in the queue changes only x's
\* position: the other elements are in the same relative order after the
\* call as before it.
C38_PushFrontKeepsOthers ==
    [][(qcall'.op = "push_front" /\ qcall'.retb) =>
           without(iq'.queue, qcall'.arg) = without(iq.queue, qcall'.arg)]_vars

(***************************************************************************)
(* A claim on the progress of queue_interests, checked under               *)
(* SpecInterestLive.                                                       *)
(***************************************************************************)
\* the interest is in the client's queue
queued(c, i) == c \in DOMAIN queues /\ i \in Range(queues[c].queue)

\* C39: once no new interests are pushed, every queued interest whose group
\* estimate is at most ReplicateMaxSize is eventually in the client's
\* outgoing list, whatever is queued ahead of it.
C39_FittingEventuallyListed ==
    \A c \in Clients, i \in Interests :
        (queued(c, i) /\ group_size(i) <= cfg.max) ~> (i \in Range(listed(c)))

\* no queued interest has a group estimate above ReplicateMaxSize
all_fit == \A c \in DOMAIN queues : \A i \in Range(queues[c].queue) : group_size(i) <= cfg.max

\* with no oversize interest in the queues every queued interest is
\* eventually in the client's outgoing list
FittingQueuesDrain ==
    \A c \in Clients, i \in Interests :
        ([]all_fit /\ queued(c, i)) ~> (i \in Range(listed(c)))

\* a frame that finds an interest with a group estimate above
\* ReplicateMaxSize at the head of a client's queue leaves that queue as it
\* was and lists nothing for the client
OversizeHeadStays ==
    [][frame_step =>
           \A c \in DOMAIN queues :
               (queues[c].queue # <<>> /\ group_size(Head(queues[c].queue)) > cfg.max)
                   => (queues'[c] = queues[c] /\ listed(c)' = <<>>)]_vars

(***************************************************************************)
(* A claim on replicate_id, checked under SpecTypes.                       *)
(***************************************************************************)
\* C40: replicate_id returns one id for a type name on every call, however
\* the calls of the threads interleave, and no id is returned for two
\* different type names.
C40_OneIdPerName ==
    /\ \A n \in TypeNames : Cardinality(treturned[n]) <= 1
    /\ \A n, m \in TypeNames : n # m => treturned[n] \cap treturned[m] = {}

\* no id is returned for two different type names
DistinctNamesDistinctIds ==
    \A n, m \in TypeNames : n # m => treturned[n] \cap treturned[m] = {}

=============================================================================
